---- MODULE Spec2Model ----
(***************************************************************************)
(* Model of the Claude Session Coordinator: the file-per-scope storage     *)
(* adapter (adapters/local.py) and the session sign-on / sign-off protocol *)
(* with its scope-prefixed data tools (server.py).                         *)
(*                                                                         *)
(* Conventions                                                             *)
(*  - A Python str that the code takes apart (scope, pattern, file name)   *)
(*    is a sequence of one-character strings: "m:o/r" is                   *)
(*    <<"m", ":", "o", "/", "r">>.  Dictionary keys and slot ids, which    *)
(*    the code only compares, are TLA+ strings.                            *)
(*  - A Python value is a record [t |-> type tag, v |-> payload]; a dict   *)
(*    payload is the sequence of its <<key, value>> items in insertion     *)
(*    order, as Python dicts iterate.                                      *)
(*  - A JSON document is a record [j |-> JSON kind, v |-> payload].        *)
(***************************************************************************)
EXTENDS Integers, Sequences, FiniteSets, TLC

VARIABLES
    files,            \* base_path directory: file name -> JSON document
    clock,            \* datetime.utcnow(), in ticks
    current_session,  \* per process: <<>> (None) or <<context dict>>
    last,             \* the last call: operation, arguments, result, store before it
    calls,            \* number of calls made so far
    factory,          \* AdapterFactory: _adapters, and the calls made on it
    inflight          \* per process: the call it is in, between two file operations

vars == <<files, clock, current_session, last, calls, factory, inflight>>

(***************************************************************************)
(* Bounds                                                                  *)
(***************************************************************************)
MaxCalls == 3

MaxAdapterCalls == 2

MaxRecordCalls == 3

MaxFactoryCalls == 3
\* calls begun by the processes whose file operations interleave
MaxRaceCalls == 2
\* calls of the project detection in one behaviour
MaxDetectCalls == 3

Procs == {"p1", "p2"}

(***************************************************************************)
(* Python values                                                           *)
(***************************************************************************)
PyNone == [t |-> "none", v |-> 0]
PyBool(b) == [t |-> "bool", v |-> b]
PyInt(n) == [t |-> "int", v |-> n]
PyStr(s) == [t |-> "str", v |-> s]
PyList(xs) == [t |-> "list", v |-> xs]
PyTuple(xs) == [t |-> "tuple", v |-> xs]
PyDict(items) == [t |-> "dict", v |-> items]
PyCallable == [t |-> "callable", v |-> 0]
\* datetime.utcnow().isoformat() at tick n: a str whose order is the order of n
PyIso(n) == [t |-> "iso", v |-> n]
PyRaise(msg) == [t |-> "raise", v |-> msg]

EmptyDict == PyDict(<<>>)

\* key in d
DictHas(d, k) == \E i \in 1..Len(d.v) : d.v[i][1] = k

\* d[key]
DictGet(d, k) == d.v[CHOOSE i \in 1..Len(d.v) : d.v[i][1] = k][2]

\* d.get(key, default)
DictGetOr(d, k, default) == IF DictHas(d, k) THEN DictGet(d, k) ELSE default

\* d[key] = x : an existing key keeps its position, a new key goes last
DictSet(d, k, x) ==
    IF DictHas(d, k)
    THEN PyDict([i \in 1..Len(d.v) |-> IF d.v[i][1] = k THEN <<k, x>> ELSE d.v[i]])
    ELSE PyDict(Append(d.v, <<k, x>>))

\* del d[key]
DictDel(d, k) == PyDict(SelectSeq(d.v, LAMBDA e : e[1] # k))

\* list(d.keys())
DictKeys(d) == [i \in 1..Len(d.v) |-> d.v[i][1]]

KeySet(d) == {d.v[i][1] : i \in 1..Len(d.v)}

\* bool(x) as used by "x or default" and "not x"
Truthy(x) ==
    CASE x.t = "none" -> FALSE
      [] x.t = "bool" -> x.v
      [] x.t = "int" -> x.v # 0
      [] x.t = "str" -> x.v # ""
      [] x.t \in {"list", "tuple", "dict"} -> Len(x.v) > 0
      [] OTHER -> TRUE

(***************************************************************************)
(* json.dump / json.load                                                   *)
(***************************************************************************)
JsonInvalid == [j |-> "invalid", v |-> 0]

RECURSIVE JsonSerializable(_)
JsonSerializable(x) ==
    CASE x.t \in {"none", "bool", "int", "str", "iso"} -> TRUE
      [] x.t \in {"list", "tuple"} -> \A i \in 1..Len(x.v) : JsonSerializable(x.v[i])
      [] x.t = "dict" -> \A i \in 1..Len(x.v) : JsonSerializable(x.v[i][2])
      [] OTHER -> FALSE

RECURSIVE json_dump(_)
json_dump(x) ==
    CASE x.t = "none" -> [j |-> "null", v |-> 0]
      [] x.t = "bool" -> [j |-> IF x.v THEN "true" ELSE "false", v |-> 0]
      [] x.t = "int" -> [j |-> "number", v |-> x.v]
      [] x.t = "str" -> [j |-> "string", v |-> x.v]
      [] x.t = "iso" -> [j |-> "isostring", v |-> x.v]
      [] x.t \in {"list", "tuple"} ->
            [j |-> "array", v |-> [i \in 1..Len(x.v) |-> json_dump(x.v[i])]]
      [] x.t = "dict" ->
            [j |-> "object",
             v |-> [i \in 1..Len(x.v) |-> <<x.v[i][1], json_dump(x.v[i][2])>>]]

\* faulty variant of json_load: a JSON array is decoded to a tuple
RECURSIVE json_load_tuple(_)
json_load_tuple(d) ==
    CASE d.j = "null" -> PyNone
      [] d.j = "true" -> PyBool(TRUE)
      [] d.j = "false" -> PyBool(FALSE)
      [] d.j = "number" -> PyInt(d.v)
      [] d.j = "string" -> PyStr(d.v)
      [] d.j = "isostring" -> PyIso(d.v)
      [] d.j = "array" -> PyTuple([i \in 1..Len(d.v) |-> json_load_tuple(d.v[i])])
      [] d.j = "object" ->
            PyDict([i \in 1..Len(d.v) |-> <<d.v[i][1], json_load_tuple(d.v[i][2])>>])

RECURSIVE json_load(_)
json_load(d) ==
    CASE d.j = "null" -> PyNone
      [] d.j = "true" -> PyBool(TRUE)
      [] d.j = "false" -> PyBool(FALSE)
      [] d.j = "number" -> PyInt(d.v)
      [] d.j = "string" -> PyStr(d.v)
      [] d.j = "isostring" -> PyIso(d.v)
      [] d.j = "array" -> PyList([i \in 1..Len(d.v) |-> json_load(d.v[i])])
      [] d.j = "object" ->
            PyDict([i \in 1..Len(d.v) |-> <<d.v[i][1], json_load(d.v[i][2])>>])

(***************************************************************************)
(* LocalFileAdapter: scope <-> file name                                   *)
(***************************************************************************)
\* str.replace(":", "__").replace("/", "__") + ".json"; the extension is
\* carried by the directory (every file of base_path is a *.json file)
RECURSIVE scope_to_filename(_)
scope_to_filename(scope) ==
    IF scope = <<>> THEN <<>>
    ELSE IF Head(scope) \in {":", "/"}
         THEN <<"_", "_">> \o scope_to_filename(Tail(scope))
         ELSE <<Head(scope)>> \o scope_to_filename(Tail(scope))

get_scope_path(scope) == scope_to_filename(scope)

(***************************************************************************)
(* LocalFileAdapter: load / save of one scope record                       *)
(***************************************************************************)
\* faulty variant of load_scope_data: a missing file is an error
load_scope_data_strict(fs, scope) ==
    LET path == get_scope_path(scope) IN
    IF path \notin DOMAIN fs \/ fs[path].j = "invalid"
    THEN [raised |-> <<PyRaise("StorageError: Failed to read scope file")>>,
          data |-> EmptyDict]
    ELSE [raised |-> <<>>, data |-> json_load(fs[path])]

\* _load_scope_data: [raised |-> exception or <<>>, data |-> dict]
load_scope_data(fs, scope) ==
    LET path == get_scope_path(scope) IN
    IF path \notin DOMAIN fs
    THEN [raised |-> <<>>, data |-> EmptyDict]
    ELSE IF fs[path].j = "invalid"
         THEN [raised |-> <<PyRaise("StorageError: Invalid JSON in scope file")>>,
               data |-> EmptyDict]
         ELSE [raised |-> <<>>, data |-> json_load(fs[path])]

\* the directory with the file at path set to doc
WriteFile(fs, path, doc) ==
    [f \in DOMAIN fs \cup {path} |-> IF f = path THEN doc ELSE fs[f]]

\* the directory without the file at path
Unlink(fs, path) == [f \in DOMAIN fs \ {path} |-> fs[f]]

\* _save_scope_data: open(path, "w") truncates, json.dump then writes the
\* document or fails part-way with TypeError
save_scope_data(fs, scope, data) ==
    LET path == get_scope_path(scope) IN
    IF JsonSerializable(data)
    THEN [raised |-> <<>>, files |-> WriteFile(fs, path, json_dump(data))]
    ELSE [raised |-> <<PyRaise("StorageError: Value is not JSON-serializable")>>,
          files |-> WriteFile(fs, path, JsonInvalid)]

(***************************************************************************)
(* LocalFileAdapter: file name -> scope, fnmatch, sorted                   *)
(***************************************************************************)
\* str.split("__"): the parts between leftmost non-overlapping separators;
\* cur is the part being read
RECURSIVE SplitSep(_, _)
SplitSep(s, cur) ==
    IF s = <<>> THEN <<cur>>
    ELSE IF Len(s) >= 2 /\ s[1] = "_" /\ s[2] = "_"
         THEN <<cur>> \o SplitSep(SubSeq(s, 3, Len(s)), <<>>)
         ELSE SplitSep(Tail(s), Append(cur, Head(s)))

\* sep.join(parts)
RECURSIVE Join(_, _)
Join(parts, sep) ==
    IF parts = <<>> THEN <<>>
    ELSE IF Len(parts) = 1 THEN parts[1]
         ELSE parts[1] \o sep \o Join(Tail(parts), sep)

\* _filename_to_scope (the ".json" suffix already removed)
filename_to_scope(filename) ==
    LET parts == SplitSep(filename, <<>>) IN
    IF Len(parts) >= 4
    THEN parts[1] \o <<":">> \o parts[2] \o <<"/">> \o parts[3] \o <<":">>
         \o Join(SubSeq(parts, 4, Len(parts)), <<":">>)
    ELSE Join(parts, <<":">>)

\* faulty variant of fnmatch: "*" and "?" do not match a "/"
RECURSIVE fnmatch_path(_, _)
fnmatch_path(s, pat) ==
    IF pat = <<>> THEN s = <<>>
    ELSE IF Head(pat) = "*"
         THEN fnmatch_path(s, Tail(pat))
              \/ (s # <<>> /\ Head(s) # "/" /\ fnmatch_path(Tail(s), pat))
         ELSE /\ s # <<>>
              /\ ((Head(pat) = "?" /\ Head(s) # "/") \/ Head(pat) = Head(s))
              /\ fnmatch_path(Tail(s), Tail(pat))

\* fnmatch.fnmatch(s, pat) for patterns of literals, "*" and "?"
RECURSIVE fnmatch(_, _)
fnmatch(s, pat) ==
    IF pat = <<>> THEN s = <<>>
    ELSE IF Head(pat) = "*"
         THEN fnmatch(s, Tail(pat)) \/ (s # <<>> /\ fnmatch(Tail(s), pat))
         ELSE /\ s # <<>>
              /\ (Head(pat) = "?" \/ Head(pat) = Head(s))
              /\ fnmatch(Tail(s), Tail(pat))

\* the characters of the model in code point order
CodePoints ==
    <<"*", "/", "0", "1", "2", "3", "4", ":", "?", "_",
      "a", "c", "d", "e", "i", "k", "l", "m", "n", "o", "r", "s", "t", "u">>

Ord(c) == CHOOSE i \in 1..Len(CodePoints) : CodePoints[i] = c

\* a < b for Python str
RECURSIVE StrLess(_, _)
StrLess(a, b) ==
    IF b = <<>> THEN FALSE
    ELSE IF a = <<>> THEN TRUE
    ELSE IF Head(a) = Head(b) THEN StrLess(Tail(a), Tail(b))
    ELSE Ord(Head(a)) < Ord(Head(b))

\* xs with x inserted before the first element greater than x
RECURSIVE InsertSorted(_, _)
InsertSorted(xs, x) ==
    IF xs = <<>> THEN <<x>>
    ELSE IF StrLess(x, Head(xs)) THEN <<x>> \o xs
    ELSE <<Head(xs)>> \o InsertSorted(Tail(xs), x)

\* sorted(xs)
RECURSIVE sorted(_)
sorted(xs) == IF xs = <<>> THEN <<>> ELSE InsertSorted(sorted(Tail(xs)), Head(xs))

\* the elements of a set in some order (the order glob yields is unspecified)
RECURSIVE SetToSeq(_)
SetToSeq(S) ==
    IF S = {} THEN <<>>
    ELSE LET x == CHOOSE y \in S : TRUE IN <<x>> \o SetToSeq(S \ {x})

(***************************************************************************)
(* LocalFileAdapter: the operations                                        *)
(* Each yields [raised |-> <<>> or <<exception>>, result, files].          *)
(***************************************************************************)
Outcome(raised, result, fs) == [raised |-> raised, result |-> result, files |-> fs]

\* faulty variant of update_metadata: created_at is set by every store
update_metadata_recreate(metadata, key, now) ==
    DictSet(metadata, key,
            PyDict(<< <<"created_at", PyIso(now)>>, <<"updated_at", PyIso(now)>> >>))

\* faulty variant of update_metadata: updated_at is refreshed for every key
update_metadata_all(metadata, key, now) ==
    LET md1 == IF DictHas(metadata, key) THEN metadata
               ELSE DictSet(metadata, key, PyDict(<< <<"created_at", PyIso(now)>> >>))
    IN PyDict([i \in 1..Len(md1.v) |->
                  <<md1.v[i][1], DictSet(md1.v[i][2], "updated_at", PyIso(now))>>])

\* store, "Update metadata": created_at for a new key, updated_at always
update_metadata(metadata, key, now) ==
    LET md1 == IF DictHas(metadata, key) THEN metadata
               ELSE DictSet(metadata, key, PyDict(<< <<"created_at", PyIso(now)>> >>))
    IN DictSet(md1, key, DictSet(DictGet(md1, key), "updated_at", PyIso(now)))

\* faulty variant of store_update: the record written holds the stored key
\* alone, whatever was loaded
store_update_fresh(scope_data, key, value, now) ==
    PyDict(<< <<"data", PyDict(<< <<key, value>> >>)>>,
              <<"metadata", update_metadata(EmptyDict, key, now)>> >>)

\* faulty variant of store_update: a key the record already holds keeps its
\* value
store_update_keep(scope_data, key, value, now) ==
    LET sd0 == scope_data
        sd1 == IF DictHas(sd0, "data") THEN sd0 ELSE DictSet(sd0, "data", EmptyDict)
        sd2 == IF DictHas(sd1, "metadata") THEN sd1 ELSE DictSet(sd1, "metadata", EmptyDict)
        data == IF DictHas(DictGet(sd2, "data"), key) THEN DictGet(sd2, "data")
                ELSE DictSet(DictGet(sd2, "data"), key, value)
        md == update_metadata(DictGet(sd2, "metadata"), key, now)
    IN DictSet(DictSet(sd2, "data", data), "metadata", md)

\* store, between the load and the save: the record in memory with the value
\* and its metadata set
store_update(scope_data, key, value, now) ==
    LET sd0 == scope_data
        sd1 == IF DictHas(sd0, "data") THEN sd0 ELSE DictSet(sd0, "data", EmptyDict)
        sd2 == IF DictHas(sd1, "metadata") THEN sd1 ELSE DictSet(sd1, "metadata", EmptyDict)
        data == DictSet(DictGet(sd2, "data"), key, value)
        md == update_metadata(DictGet(sd2, "metadata"), key, now)
    IN DictSet(DictSet(sd2, "data", data), "metadata", md)

\* store(scope, key, value) at time now
store(fs, scope, key, value, now) ==
    LET loaded == load_scope_data(fs, scope) IN
    IF loaded.raised # <<>> THEN Outcome(loaded.raised, PyNone, fs)
    ELSE
    LET saved == save_scope_data(fs, scope, store_update(loaded.data, key, value, now))
    IN Outcome(saved.raised, PyNone, saved.files)

\* faulty variant of retrieve: a missing key raises instead of yielding None
retrieve_keyerror(fs, scope, key) ==
    LET loaded == load_scope_data(fs, scope) IN
    IF loaded.raised # <<>> THEN Outcome(loaded.raised, PyNone, fs)
    ELSE IF ~DictHas(DictGetOr(loaded.data, "data", EmptyDict), key)
    THEN Outcome(<<PyRaise("KeyError")>>, PyNone, fs)
    ELSE Outcome(<<>>, DictGet(DictGet(loaded.data, "data"), key), fs)

\* retrieve(scope, key)
retrieve(fs, scope, key) ==
    LET loaded == load_scope_data(fs, scope) IN
    IF loaded.raised # <<>> THEN Outcome(loaded.raised, PyNone, fs)
    ELSE Outcome(<<>>,
                 DictGetOr(DictGetOr(loaded.data, "data", EmptyDict), key, PyNone),
                 fs)

\* faulty variant of delete: the record is saved even when no key is left
delete_keep_empty(fs, scope, key) ==
    LET loaded == load_scope_data(fs, scope) IN
    IF loaded.raised # <<>> THEN Outcome(loaded.raised, PyNone, fs)
    ELSE
    LET sd0 == loaded.data IN
    IF ~DictHas(sd0, "data") \/ ~DictHas(DictGet(sd0, "data"), key)
    THEN Outcome(<<>>, PyBool(FALSE), fs)
    ELSE
    LET sd1 == DictSet(sd0, "data", DictDel(DictGet(sd0, "data"), key))
        sd2 == IF DictHas(sd1, "metadata") /\ DictHas(DictGet(sd1, "metadata"), key)
               THEN DictSet(sd1, "metadata", DictDel(DictGet(sd1, "metadata"), key))
               ELSE sd1
        saved == save_scope_data(fs, scope, sd2)
    IN Outcome(saved.raised, IF saved.raised = <<>> THEN PyBool(TRUE) ELSE PyNone,
               saved.files)

\* delete(scope, key)
delete(fs, scope, key) ==
    LET loaded == load_scope_data(fs, scope) IN
    IF loaded.raised # <<>> THEN Outcome(loaded.raised, PyNone, fs)
    ELSE
    LET sd0 == loaded.data IN
    IF ~DictHas(sd0, "data") \/ ~DictHas(DictGet(sd0, "data"), key)
    THEN Outcome(<<>>, PyBool(FALSE), fs)
    ELSE
    LET sd1 == DictSet(sd0, "data", DictDel(DictGet(sd0, "data"), key))
        sd2 == IF DictHas(sd1, "metadata") /\ DictHas(DictGet(sd1, "metadata"), key)
               THEN DictSet(sd1, "metadata", DictDel(DictGet(sd1, "metadata"), key))
               ELSE sd1
    IN IF ~Truthy(DictGetOr(sd2, "data", PyNone))
       THEN Outcome(<<>>, PyBool(TRUE), Unlink(fs, get_scope_path(scope)))
       ELSE LET saved == save_scope_data(fs, scope, sd2)
            IN Outcome(saved.raised,
                       IF saved.raised = <<>> THEN PyBool(TRUE) ELSE PyNone,
                       saved.files)

\* list_keys(scope)
list_keys(fs, scope) ==
    LET loaded == load_scope_data(fs, scope) IN
    IF loaded.raised # <<>> THEN Outcome(loaded.raised, PyNone, fs)
    ELSE Outcome(<<>>, PyList(DictKeys(DictGetOr(loaded.data, "data", EmptyDict))), fs)

\* list_scopes(pattern); pattern <<>> is None or "", which "if pattern" treats alike
list_scopes(fs, pattern) ==
    LET scope_files == SetToSeq(DOMAIN fs)
        scopes == [i \in 1..Len(scope_files) |-> filename_to_scope(scope_files[i])]
        kept == IF pattern # <<>>
                THEN SelectSeq(scopes, LAMBDA s : fnmatch(s, pattern))
                ELSE scopes
    IN Outcome(<<>>, PyList(sorted(kept)), fs)

\* faulty variant of delete_scope: a missing file is not told apart
delete_scope_missing_ok(fs, scope) ==
    Outcome(<<>>, PyBool(TRUE), Unlink(fs, get_scope_path(scope)))

\* delete_scope(scope)
delete_scope(fs, scope) ==
    LET path == get_scope_path(scope) IN
    IF path \notin DOMAIN fs
    THEN Outcome(<<>>, PyBool(FALSE), fs)
    ELSE Outcome(<<>>, PyBool(TRUE), Unlink(fs, path))

(***************************************************************************)
(* server.py: module state of each server process                          *)
(***************************************************************************)
\* machine_id and project_id, set once by initialize_server
machine_id == [p \in Procs |-> <<"m">>]
project_id == [p \in Procs |-> <<"o", "/", "r">>]

Instances == <<"i", "n", "s", "t", "a", "n", "c", "e", "s">>

\* f"{machine_id}:{project_id}:instances"
InstancesScope(machine, project) == machine \o <<":">> \o project \o <<":">> \o Instances

\* the dict sign_on binds to current_session
Context(machine, project, sid) ==
    [machine |-> machine, project |-> project, session_id |-> sid,
     full_scope_prefix |-> machine \o <<":">> \o project]

\* x or {}
OrEmptyDict(x) == IF Truthy(x) THEN x ELSE EmptyDict

IsStatus(x, status) == x.t = "str" /\ x.v = status

\* faulty variant of FirstAvailable: the default whatever the registry holds
FirstAvailable_default(instances, default) == default

\* faulty variant of FirstAvailable: the default is dropped
FirstAvailable_noDefault(instances, default) ==
    IF \E i \in 1..Len(instances.v) : IsStatus(instances.v[i][2], "available")
    THEN LET i == CHOOSE n \in 1..Len(instances.v) :
                     /\ IsStatus(instances.v[n][2], "available")
                     /\ \A m \in 1..(n - 1) : ~IsStatus(instances.v[m][2], "available")
         IN instances.v[i][1]
    ELSE ""

\* next((k for k, v in instances.items() if v == "available"), default)
FirstAvailable(instances, default) ==
    IF \E i \in 1..Len(instances.v) : IsStatus(instances.v[i][2], "available")
    THEN LET i == CHOOSE n \in 1..Len(instances.v) :
                     /\ IsStatus(instances.v[n][2], "available")
                     /\ \A m \in 1..(n - 1) : ~IsStatus(instances.v[m][2], "available")
         IN instances.v[i][1]
    ELSE default

\* faulty variant of mark_taken: the registry is rebuilt from the claimed slot alone
mark_taken_fresh(instances, session_id) == PyDict(<< <<session_id, PyStr("taken")>> >>)

\* sign_on: instances[session_id] = "taken"
mark_taken(instances, session_id) == DictSet(instances, session_id, PyStr("taken"))

\* faulty variant of mark_available: the released slot is removed
mark_available_del(instances, session_id) == DictDel(instances, session_id)

\* sign_off: instances[current_session["session_id"]] = "available"
mark_available(instances, session_id) == DictSet(instances, session_id, PyStr("available"))

\* what a server call yields: the exception raised if any, the value returned,
\* the directory and the caller's current_session afterwards
ServerOutcome(raised, result, fs, session) ==
    [raised |-> raised, result |-> result, files |-> fs, session |-> session]

NotSignedOn == <<PyRaise("RuntimeError: Must call sign_on() first")>>

\* the conditions of the file system during one call: none, a scope file that
\* cannot be read, a scope file that cannot be opened for writing, a write
\* that fails after the file was opened
IoFaults == {"none", "read", "open", "write"}

\* retrieve(scope, key) under a condition of the file system: open(path, "r")
\* of an existing file raises OSError when it cannot be read
retrieve_io(fs, scope, key, fault) ==
    IF fault = "read" /\ get_scope_path(scope) \in DOMAIN fs
    THEN Outcome(<<PyRaise("StorageError: Failed to read scope file")>>, PyNone, fs)
    ELSE retrieve(fs, scope, key)

\* store(scope, key, value) under a condition of the file system: the load
\* fails as in retrieve; open(path, "w") raises OSError and leaves the file
\* alone, or json.dump raises OSError after open truncated the file
store_io(fs, scope, key, value, now, fault) ==
    LET path == get_scope_path(scope)
        loaded == load_scope_data(fs, scope)
    IN
    IF fault = "read" /\ path \in DOMAIN fs
    THEN Outcome(<<PyRaise("StorageError: Failed to read scope file")>>, PyNone, fs)
    ELSE IF fault \in {"open", "write"} /\ loaded.raised = <<>>
    THEN Outcome(<<PyRaise("StorageError: Failed to write scope file")>>, PyNone,
                 IF fault = "open" THEN fs ELSE WriteFile(fs, path, JsonInvalid))
    ELSE store(fs, scope, key, value, now)

\* faulty variant of sign_on_io: current_session is set before the registry
\* is marked, so a failure of that read or write leaves the process signed on
sign_on_io_bound(fs, session, machine, project, session_id, now, fault) ==
    LET instances_scope == InstancesScope(machine, project)
        r1 == retrieve_io(fs, instances_scope, "registry", fault)
        r2 == retrieve_io(fs, instances_scope, "registry", fault)
    IN
    IF session_id = "" /\ r1.raised # <<>>
    THEN ServerOutcome(r1.raised, PyNone, fs, session)
    ELSE IF session_id = "" /\ OrEmptyDict(r1.result).t # "dict"
    THEN ServerOutcome(<<PyRaise("AttributeError")>>, PyNone, fs, session)
    ELSE
    LET sid == IF session_id = ""
               THEN FirstAvailable(OrEmptyDict(r1.result), "claude_1")
               ELSE session_id
    IN
    IF r2.raised # <<>>
    THEN ServerOutcome(r2.raised, PyNone, fs, <<Context(machine, project, sid)>>)
    ELSE IF OrEmptyDict(r2.result).t # "dict"
    THEN ServerOutcome(<<PyRaise("TypeError")>>, PyNone, fs, session)
    ELSE
    LET instances == mark_taken(OrEmptyDict(r2.result), sid)
        st == store_io(fs, instances_scope, "registry", instances, now, fault)
    IN
    IF st.raised # <<>>
    THEN ServerOutcome(st.raised, PyNone, st.files,
                       <<Context(machine, project, sid)>>)
    ELSE ServerOutcome(<<>>, Context(machine, project, sid), st.files,
                       <<Context(machine, project, sid)>>)

\* sign_on(session_id) under a condition of the file system; session_id "" is
\* None or "", which "not session_id" treats alike
sign_on_io(fs, session, machine, project, session_id, now, fault) ==
    LET instances_scope == InstancesScope(machine, project)
        r1 == retrieve_io(fs, instances_scope, "registry", fault)
        r2 == retrieve_io(fs, instances_scope, "registry", fault)
    IN
    IF session_id = "" /\ r1.raised # <<>>
    THEN ServerOutcome(r1.raised, PyNone, fs, session)
    ELSE IF session_id = "" /\ OrEmptyDict(r1.result).t # "dict"
    THEN ServerOutcome(<<PyRaise("AttributeError")>>, PyNone, fs, session)
    ELSE
    LET sid == IF session_id = ""
               THEN FirstAvailable(OrEmptyDict(r1.result), "claude_1")
               ELSE session_id
    IN
    IF r2.raised # <<>>
    THEN ServerOutcome(r2.raised, PyNone, fs, session)
    ELSE IF OrEmptyDict(r2.result).t # "dict"
    THEN ServerOutcome(<<PyRaise("TypeError")>>, PyNone, fs, session)
    ELSE
    LET instances == mark_taken(OrEmptyDict(r2.result), sid)
        st == store_io(fs, instances_scope, "registry", instances, now, fault)
    IN
    IF st.raised # <<>>
    THEN ServerOutcome(st.raised, PyNone, st.files, session)
    ELSE ServerOutcome(<<>>, Context(machine, project, sid), st.files,
                       <<Context(machine, project, sid)>>)

\* sign_on(session_id) with the file system in order
sign_on(fs, session, machine, project, session_id, now) ==
    sign_on_io(fs, session, machine, project, session_id, now, "none")

NoActiveSession == [status |-> "no active session", session |-> <<>>]

\* faulty variant of release_instance: signing off also removes every file
\* but the registry's
release_instance_wipe(fs, session, now) ==
    LET instances_scope == session[1].full_scope_prefix \o <<":">> \o Instances
        r == retrieve(fs, instances_scope, "registry")
        instances == mark_available(OrEmptyDict(r.result), session[1].session_id)
        st == store(fs, instances_scope, "registry", instances, now)
    IN ServerOutcome(<<>>, [status |-> "signed off", session |-> session],
                     [f \in {get_scope_path(instances_scope)} |-> st.files[f]], <<>>)

\* sign_off, "Mark instance as available" to the return
release_instance(fs, session, now) ==
    LET instances_scope == session[1].full_scope_prefix \o <<":">> \o Instances
        r == retrieve(fs, instances_scope, "registry")
    IN
    IF r.raised # <<>>
    THEN ServerOutcome(r.raised, PyNone, fs, session)
    ELSE IF OrEmptyDict(r.result).t # "dict"
    THEN ServerOutcome(<<PyRaise("TypeError")>>, PyNone, fs, session)
    ELSE
    LET instances == mark_available(OrEmptyDict(r.result), session[1].session_id)
        st == store(fs, instances_scope, "registry", instances, now)
    IN
    IF st.raised # <<>>
    THEN ServerOutcome(st.raised, PyNone, st.files, session)
    ELSE ServerOutcome(<<>>, [status |-> "signed off", session |-> session],
                       st.files, <<>>)

\* faulty variant of sign_off: without a session it raises as the data tools do
sign_off_strict(fs, session, now) ==
    IF session = <<>>
    THEN ServerOutcome(NotSignedOn, PyNone, fs, session)
    ELSE release_instance(fs, session, now)

\* sign_off()
sign_off(fs, session, now) ==
    IF session = <<>>
    THEN ServerOutcome(<<>>, NoActiveSession, fs, session)
    ELSE release_instance(fs, session, now)

\* faulty variant of FullScope: the machine is left out of the prefix
FullScope_project(session, scope) == session[1].project \o <<":">> \o scope

\* f"{current_session['full_scope_prefix']}:{scope}"
FullScope(session, scope) == session[1].full_scope_prefix \o <<":">> \o scope

\* lifts an adapter outcome to the outcome of the server tool that returns it
Delegated(o, session) == ServerOutcome(o.raised, o.result, o.files, session)

\* store_data(scope, key, value)
store_data(fs, session, scope, key, value, now) ==
    IF session = <<>> THEN ServerOutcome(NotSignedOn, PyNone, fs, session)
    ELSE Delegated(store(fs, FullScope(session, scope), key, value, now), session)

\* retrieve_data(scope, key)
retrieve_data(fs, session, scope, key) ==
    IF session = <<>> THEN ServerOutcome(NotSignedOn, PyNone, fs, session)
    ELSE Delegated(retrieve(fs, FullScope(session, scope), key), session)

\* delete_data(scope, key)
delete_data(fs, session, scope, key) ==
    IF session = <<>> THEN ServerOutcome(NotSignedOn, PyNone, fs, session)
    ELSE Delegated(delete(fs, FullScope(session, scope), key), session)

\* list_keys(scope)
tool_list_keys(fs, session, scope) ==
    IF session = <<>> THEN ServerOutcome(NotSignedOn, PyNone, fs, session)
    ELSE Delegated(list_keys(fs, FullScope(session, scope)), session)

\* s.replace(prefix, "", 1): s without the first occurrence of prefix
RECURSIVE ReplaceFirst(_, _)
ReplaceFirst(s, prefix) ==
    IF prefix = <<>> THEN s
    ELSE IF Len(s) < Len(prefix) THEN s
    ELSE IF SubSeq(s, 1, Len(prefix)) = prefix THEN SubSeq(s, Len(prefix) + 1, Len(s))
    ELSE <<Head(s)>> \o ReplaceFirst(Tail(s), prefix)

\* list_scopes(pattern)
tool_list_scopes(fs, session, pattern) ==
    IF session = <<>> THEN ServerOutcome(NotSignedOn, PyNone, fs, session)
    ELSE
    LET full_pattern == IF pattern # <<>>
                        THEN session[1].full_scope_prefix \o <<":">> \o pattern
                        ELSE session[1].full_scope_prefix \o <<":", "*">>
        o == list_scopes(fs, full_pattern)
        prefix == session[1].full_scope_prefix \o <<":">>
    IN
    IF o.raised # <<>> THEN Delegated(o, session)
    ELSE ServerOutcome(<<>>,
             PyList([i \in 1..Len(o.result.v) |-> ReplaceFirst(o.result.v[i], prefix)]),
             fs, session)

\* faulty variant of tool_delete_scope: without a session it reports False
tool_delete_scope_unchecked(fs, session, scope) ==
    IF session = <<>> THEN ServerOutcome(<<>>, PyBool(FALSE), fs, session)
    ELSE Delegated(delete_scope(fs, FullScope(session, scope)), session)

\* delete_scope(scope)
tool_delete_scope(fs, session, scope) ==
    IF session = <<>> THEN ServerOutcome(NotSignedOn, PyNone, fs, session)
    ELSE Delegated(delete_scope(fs, FullScope(session, scope)), session)

(***************************************************************************)
(* adapters/factory.py: AdapterFactory                                     *)
(* A constructor is named by a string; _adapters is the dict of            *)
(* <<name, constructor>> items.  The text of an exception that the code    *)
(* formats from values is the sequence of its pieces.                      *)
(***************************************************************************)
\* what a constructor does with the adapter configuration it is given:
\* _create_local_adapter builds a LocalFileAdapter on config.get("base_path",
\* default), the test's create_custom a CustomAdapter, failing_creator raises
Construct(constructor, adapter_config) ==
    CASE constructor = "_create_local_adapter" ->
            [raised |-> <<>>,
             adapter |-> [class |-> "LocalFileAdapter",
                          param |-> DictGetOr(adapter_config, "base_path",
                                              PyStr(".claude/session-state"))]]
      [] constructor = "create_custom" ->
            [raised |-> <<>>,
             adapter |-> [class |-> "CustomAdapter",
                          param |-> DictGetOr(adapter_config, "custom_param",
                                              PyStr("default"))]]
      [] OTHER ->
            [raised |-> <<"Creation failed!">>, adapter |-> PyNone]

\* the state of the class after the module is imported: "local" registered
FactoryAtImport ==
    [adapters |-> PyDict(<< <<"local", "_create_local_adapter">> >>),
     registered |-> << <<"local", "_create_local_adapter">> >>,
     invoked |-> <<>>]

\* faulty variant of register_adapter: a registered name keeps its constructor
register_adapter_first(fac, name, constructor) ==
    [fac EXCEPT !.adapters = IF DictHas(fac.adapters, name) THEN fac.adapters
                             ELSE DictSet(fac.adapters, name, constructor),
                !.registered = Append(fac.registered, <<name, constructor>>)]

\* register_adapter(name, constructor): cls._adapters[name] = constructor;
\* registered is the history of the registrations
register_adapter(fac, name, constructor) ==
    [fac EXCEPT !.adapters = DictSet(fac.adapters, name, constructor),
                !.registered = Append(fac.registered, <<name, constructor>>)]

\* ", ".join(cls._adapters.keys())
AvailableTypes(adapters) ==
    Join([i \in 1..Len(adapters.v) |-> <<adapters.v[i][1]>>], <<", ">>)

UnknownAdapterType(adapter_type, adapters) ==
    PyRaise(<<"StorageError: Unknown adapter type: '", adapter_type,
              "'. Available types: ">> \o AvailableTypes(adapters))

\* faulty variant of create_adapter: an unknown type is given the local adapter
create_adapter_fallback(fac, config) ==
    LET adapter_type == DictGetOr(config, "adapter", PyNone)
        adapter_config == DictGetOr(config, "config", EmptyDict)
        constructor == IF DictHas(fac.adapters, adapter_type.v)
                       THEN DictGet(fac.adapters, adapter_type.v)
                       ELSE "_create_local_adapter"
        made == Construct(constructor, adapter_config)
    IN
    IF ~Truthy(adapter_type)
    THEN [raised |-> <<PyRaise(<<"StorageError: Adapter type not specified in configuration">>)>>,
          result |-> PyNone, factory |-> fac]
    ELSE [raised |-> IF made.raised = <<>> THEN <<>>
                     ELSE <<PyRaise(<<"StorageError: Failed to create adapter of type '",
                                      adapter_type.v, "': ">> \o made.raised)>>,
          result |-> made.adapter,
          factory |-> [fac EXCEPT !.invoked = Append(@, <<constructor, adapter_config>>)]]

\* create_adapter(config): [raised, result, factory]; invoked is the history
\* of the constructor calls
create_adapter(fac, config) ==
    LET adapter_type == DictGetOr(config, "adapter", PyNone)
        adapter_config == DictGetOr(config, "config", EmptyDict)
    IN
    IF ~Truthy(adapter_type)
    THEN [raised |-> <<PyRaise(<<"StorageError: Adapter type not specified in configuration">>)>>,
          result |-> PyNone, factory |-> fac]
    ELSE IF DictHas(fac.adapters, adapter_type.v)
    THEN LET constructor == DictGet(fac.adapters, adapter_type.v)
             made == Construct(constructor, adapter_config)
         IN [raised |-> IF made.raised = <<>> THEN <<>>
                        ELSE <<PyRaise(<<"StorageError: Failed to create adapter of type '",
                                         adapter_type.v, "': ">> \o made.raised)>>,
             result |-> made.adapter,
             factory |-> [fac EXCEPT !.invoked = Append(@, <<constructor, adapter_config>>)]]
    ELSE [raised |-> <<UnknownAdapterType(adapter_type.v, fac.adapters)>>,
          result |-> PyNone, factory |-> fac]

(***************************************************************************)
(* server.py: the resources session://context and session://state, and    *)
(* the startup prompt.  Each returns a text; the model keeps the values    *)
(* the text is formatted from.                                             *)
(***************************************************************************)
\* the registry shown while none is persisted
DefaultInstances ==
    PyDict(<< <<"claude_1", PyStr("available")>>, <<"claude_2", PyStr("available")>>,
              <<"claude_3", PyStr("available")>>, <<"claude_4", PyStr("available")>> >>)

\* the characters of an instance id, for the scopes formatted from it
InstanceChars ==
    [id \in {"claude_1", "claude_2", "claude_3", "claude_4"} |->
        <<"c", "l", "a", "u", "d", "e", "_">>
            \o <<CASE id = "claude_1" -> "1" [] id = "claude_2" -> "2"
                    [] id = "claude_3" -> "3" [] id = "claude_4" -> "4">>]

\* f"{machine_id}:{project_id}:session:{instance_id}"
SessionScope(machine, project, instance_id) ==
    machine \o <<":">> \o project
        \o <<":", "s", "e", "s", "s", "i", "o", "n", ":">> \o InstanceChars[instance_id]

\* next((k for k, v in instances.items() if v == "available"), None)
FirstAvailableOrNone(instances) ==
    IF \E i \in 1..Len(instances.v) : IsStatus(instances.v[i][2], "available")
    THEN PyStr(FirstAvailable(instances, ""))
    ELSE PyNone

\* the slots of instances whose status is "taken", in registry order
TakenItems(instances) ==
    SelectSeq([i \in 1..Len(instances.v) |-> instances.v[i][1]],
              LAMBDA k : IsStatus(DictGet(instances, k), "taken"))

\* get_session_context, one entry of active_sessions
ActiveSession(fs, machine, project, instance_id) ==
    LET session_scope == SessionScope(machine, project, instance_id)
        todos == OrEmptyDict(retrieve(fs, session_scope, "todos").result)
    IN [instance |-> instance_id, status |-> "taken",
        current_issue |-> retrieve(fs, session_scope, "current_issue").result,
        todo_count |-> IF todos.t = "list" THEN Len(todos.v) ELSE 0]

\* faulty variant of get_session_context: the default registry it shows is
\* also persisted
get_session_context_persist(fs, session, machine, project) ==
    LET r == retrieve(fs, InstancesScope(machine, project), "registry")
        instances == IF Truthy(r.result) THEN r.result ELSE DefaultInstances
        st == store(fs, InstancesScope(machine, project), "registry", instances, 0)
    IN
    IF r.raised # <<>> \/ instances.t # "dict"
    THEN ServerOutcome(<<PyRaise("StorageError")>>, PyNone, fs, session)
    ELSE ServerOutcome(<<>>,
                       [machine |-> machine, project |-> project,
                        current_session |-> session, instances |-> instances,
                        active_sessions |-> <<>>,
                        first_available |-> FirstAvailableOrNone(instances)],
                       st.files, session)

\* get_session_context(): the context the JSON text is dumped from
get_session_context(fs, session, machine, project) ==
    LET r == retrieve(fs, InstancesScope(machine, project), "registry")
        instances == IF Truthy(r.result) THEN r.result ELSE DefaultInstances
    IN
    IF r.raised # <<>> THEN ServerOutcome(r.raised, PyNone, fs, session)
    ELSE IF instances.t # "dict"
    THEN ServerOutcome(<<PyRaise("AttributeError")>>, PyNone, fs, session)
    ELSE
    LET taken == TakenItems(instances)
        listed == [i \in 1..Len(taken) |->
                      list_keys(fs, SessionScope(machine, project, taken[i]))]
        active == SelectSeq(taken,
                            LAMBDA k : Truthy(list_keys(fs, SessionScope(machine, project,
                                                                         k)).result))
    IN
    IF \E i \in 1..Len(listed) : listed[i].raised # <<>>
    THEN ServerOutcome(listed[CHOOSE i \in 1..Len(listed) : listed[i].raised # <<>>].raised,
                       PyNone, fs, session)
    ELSE ServerOutcome(<<>>,
                       [machine |-> machine, project |-> project,
                        current_session |-> session, instances |-> instances,
                        active_sessions |-> [i \in 1..Len(active) |->
                                                ActiveSession(fs, machine, project,
                                                              active[i])],
                        first_available |-> FirstAvailableOrNone(instances)],
                       fs, session)

\* get_session_state(instance_id)
get_session_state(fs, session, machine, project, instance_id) ==
    LET session_scope == SessionScope(machine, project, instance_id)
        keys == list_keys(fs, session_scope)
    IN
    IF keys.raised # <<>> THEN ServerOutcome(keys.raised, PyNone, fs, session)
    ELSE IF ~Truthy(keys.result)
    THEN ServerOutcome(<<>>, [error |-> "Session not found or not active"], fs, session)
    ELSE ServerOutcome(<<>>,
                       [instance |-> instance_id,
                        current_issue |-> retrieve(fs, session_scope, "current_issue").result,
                        status |-> retrieve(fs, session_scope, "status").result,
                        todos |-> retrieve(fs, session_scope, "todos").result,
                        last_updated |-> retrieve(fs, session_scope, "last_updated").result],
                       fs, session)

\* startup() once the storage settings exist: whether it says that all
\* instances are taken, and the values its text shows
startup(fs, session, machine, project) ==
    LET r == retrieve(fs, InstancesScope(machine, project), "registry")
        instances == IF Truthy(r.result) THEN r.result ELSE DefaultInstances
    IN
    IF r.raised # <<>> THEN ServerOutcome(r.raised, PyNone, fs, session)
    ELSE IF instances.t # "dict"
    THEN ServerOutcome(<<PyRaise("AttributeError")>>, PyNone, fs, session)
    ELSE ServerOutcome(<<>>,
                       [all_taken |-> FirstAvailableOrNone(instances).t = "none",
                        first_available |-> FirstAvailableOrNone(instances),
                        available_list |->
                            SelectSeq([i \in 1..Len(instances.v) |-> instances.v[i][1]],
                                      LAMBDA k : IsStatus(DictGet(instances, k), "available")),
                        active_count |-> Len(TakenItems(instances))],
                       fs, session)

(***************************************************************************)
(* Inputs of the calls                                                     *)
(***************************************************************************)
\* session_id arguments of sign_on; "" is the call without an id
SessionIds == {"", "claude_1", "claude_2"}

\* logical scopes given to the data tools: "i:4" and "instances"
LogicalScopes == {<<"i", ":", "4">>, Instances}

\* keys given to the data tools
ToolKeys == {"status", "registry"}

\* values given to store_data
ToolValues == {PyStr("blocked")}

\* patterns given to the server's list_scopes; <<>> is the call without one
ToolPatterns == {<<>>, <<"i", ":", "*">>}

\* scopes given to the adapter: "m:o/r:s:1" and "m:o/r:i:4"
AdapterScopes ==
    {<<"m", ":", "o", "/", "r", ":", "s", ":", "1">>,
     <<"m", ":", "o", "/", "r", ":", "i", ":", "4">>}

AdapterKeys == {"status", "todos"}

\* one value of each JSON kind: null, boolean, number, string, nested
\* sequence, nested mapping
AdapterValues ==
    {PyNone, PyBool(TRUE), PyInt(42), PyStr("blocked"),
     PyList(<<PyInt(1), PyList(<<PyStr("three")>>)>>),
     PyDict(<< <<"nested", PyDict(<< <<"key", PyStr("value")>> >>)>> >>)}

\* patterns given to the adapter's list_scopes: none, "m:*", "*:s:*"
AdapterPatterns == {<<>>, <<"m", ":", "*">>, <<"*", ":", "s", ":", "*">>}

\* utcnow() read by a call made when the clock showed c
Now(c) == {c, c + 1}

(***************************************************************************)
(* The state machine                                                       *)
(***************************************************************************)
\* the record of a call: what was called with what, what came back, and the
\* directory and sessions it started from
Call(op, proc, args, o, fs, sessions) ==
    [op |-> op, proc |-> proc, args |-> args,
     raised |-> o.raised, result |-> o.result,
     pre_files |-> fs, pre_sessions |-> sessions]

NoArgs == [session_id |-> "", scope |-> <<>>, key |-> "", value |-> PyNone,
           pattern |-> <<>>, fault |-> "none"]

\* a process that is in no call: pc is where the call stands, sid the slot a
\* sign_on claims, instances its registry in memory, loaded the record store
\* read and scope_data the record it will write
Idle == [pc |-> "idle", op |-> "", args |-> NoArgs, scope |-> <<>>, sid |-> "",
         instances |-> PyNone, loaded |-> PyNone, scope_data |-> PyNone,
         raised |-> <<>>]

Init ==
    /\ files = <<>>
    /\ clock = 0
    /\ current_session = [p \in Procs |-> <<>>]
    /\ last = [op |-> "init", proc |-> "", args |-> NoArgs, raised |-> <<>>,
               result |-> PyNone, pre_files |-> <<>>,
               pre_sessions |-> [p \in Procs |-> <<>>]]
    /\ calls = 0
    /\ factory = FactoryAtImport
    /\ inflight = [p \in Procs |-> Idle]

\* the effect of a server call by process p with outcome o
ServerStep(p, op, args, o, now) ==
    /\ files' = o.files
    /\ current_session' = [current_session EXCEPT ![p] = o.session]
    /\ clock' = now
    /\ last' = Call(op, p, args, o, files, current_session)
    /\ calls' = calls + 1
    /\ UNCHANGED <<factory, inflight>>

SignOn(p, sid) ==
    /\ calls < MaxCalls
    /\ \E now \in Now(clock) :
        ServerStep(p, "sign_on", [NoArgs EXCEPT !.session_id = sid],
                   sign_on(files, current_session[p], machine_id[p], project_id[p],
                            sid, now),
                   now)

SignOff(p) ==
    /\ calls < MaxCalls
    /\ \E now \in Now(clock) :
        /\ current_session[p] # <<>> \/ now = clock
        /\ ServerStep(p, "sign_off", NoArgs,
                      sign_off(files, current_session[p], now), now)

\* the key "registry" of the reserved scope "instances" is written by
\* sign_on and sign_off only
StoreData(p, scope, key, value) ==
    /\ calls < MaxCalls
    /\ ~(scope = Instances /\ key = "registry")
    /\ \E now \in Now(clock) :
        /\ current_session[p] # <<>> \/ now = clock
        /\ ServerStep(p, "store_data",
                      [NoArgs EXCEPT !.scope = scope, !.key = key, !.value = value],
                      store_data(files, current_session[p], scope, key, value, now),
                      now)

RetrieveData(p, scope, key) ==
    /\ calls < MaxCalls
    /\ ServerStep(p, "retrieve_data", [NoArgs EXCEPT !.scope = scope, !.key = key],
               retrieve_data(files, current_session[p], scope, key), clock)

DeleteData(p, scope, key) ==
    /\ calls < MaxCalls
    /\ ServerStep(p, "delete_data", [NoArgs EXCEPT !.scope = scope, !.key = key],
               delete_data(files, current_session[p], scope, key), clock)

ListKeysTool(p, scope) ==
    /\ calls < MaxCalls
    /\ ServerStep(p, "list_keys", [NoArgs EXCEPT !.scope = scope],
               tool_list_keys(files, current_session[p], scope), clock)

ListScopesTool(p, pattern) ==
    /\ calls < MaxCalls
    /\ ServerStep(p, "list_scopes", [NoArgs EXCEPT !.pattern = pattern],
               tool_list_scopes(files, current_session[p], pattern), clock)

DeleteScopeTool(p, scope) ==
    /\ calls < MaxCalls
    /\ ServerStep(p, "delete_scope", [NoArgs EXCEPT !.scope = scope],
               tool_delete_scope(files, current_session[p], scope), clock)

\* the calls of process p other than sign_on
OtherCalls(p) ==
        \/ SignOff(p)
        \/ \E scope \in LogicalScopes, key \in ToolKeys, value \in ToolValues :
               StoreData(p, scope, key, value)
        \/ \E scope \in LogicalScopes, key \in ToolKeys : RetrieveData(p, scope, key)
        \/ \E scope \in LogicalScopes, key \in ToolKeys : DeleteData(p, scope, key)
        \/ \E scope \in LogicalScopes : ListKeysTool(p, scope)
        \/ \E pattern \in ToolPatterns : ListScopesTool(p, pattern)
        \/ \E scope \in LogicalScopes : DeleteScopeTool(p, scope)

Next ==
    \E p \in Procs :
        \/ \E sid \in SessionIds : SignOn(p, sid)
        \/ OtherCalls(p)

Spec == Init /\ [][Next]_vars

\* sign_on(session_id) by process p while the file system is in condition fault
SignOnIo(p, sid, fault) ==
    /\ calls < MaxCalls
    /\ \E now \in Now(clock) :
        ServerStep(p, "sign_on", [NoArgs EXCEPT !.session_id = sid, !.fault = fault],
                   sign_on_io(files, current_session[p], machine_id[p], project_id[p],
                               sid, now, fault),
                   now)

\* the system in which the file system may fail a sign_on
IoNext ==
    \E p \in Procs :
        \/ \E sid \in SessionIds, fault \in IoFaults : SignOnIo(p, sid, fault)
        \/ OtherCalls(p)

IoSpec == Init /\ [][IoNext]_vars

\* the sign_on and sign_off calls of the processes
SessionNext ==
    \E p \in Procs :
        \/ \E sid \in SessionIds : SignOn(p, sid)
        \/ SignOff(p)

\* the system of these calls under weak fairness of the release of each
\* process's context: a process that is Signed-on does not stay so for ever
\* without its context being cleared, which only sign_off does (server.py
\* line 130), so a caller that signed on calls sign_off in the end.  The
\* fairness is stated on the change of current_session alone.
FairSpec ==
    /\ Init /\ [][SessionNext]_vars
    /\ \A p \in Procs :
           WF_current_session(/\ current_session[p] # <<>>
                              /\ current_session' = [current_session EXCEPT ![p] = <<>>])

\* the system in which every sign_on is made without an id
AutoNext ==
    \E p \in Procs :
        \/ SignOn(p, "")
        \/ OtherCalls(p)

AutoSpec == Init /\ [][AutoNext]_vars

(***************************************************************************)
(* Two server processes started in different projects over one directory   *)
(***************************************************************************)
\* detect_project_id: "o/r" read from the git remote of p1's directory, and
\* the directory name "o" for p2, whose directory has no remote
detect_project_id == [p \in Procs |-> IF p = "p1" THEN <<"o", "/", "r">> ELSE <<"o">>]

\* logical scopes given to the data tools: "i:4" and "r:i:4"
ProjectScopes == {<<"i", ":", "4">>, <<"r", ":", "i", ":", "4">>}

ProjectKeys == {"status"}

SignOnDetected(p, sid) ==
    /\ calls < MaxCalls
    /\ \E now \in Now(clock) :
        ServerStep(p, "sign_on", [NoArgs EXCEPT !.session_id = sid],
                   sign_on(files, current_session[p], machine_id[p],
                            detect_project_id[p], sid, now),
                   now)

ProjectNext ==
    \E p \in Procs :
        \/ SignOnDetected(p, "")
        \/ SignOff(p)
        \/ \E scope \in ProjectScopes, key \in ProjectKeys, value \in ToolValues :
               StoreData(p, scope, key, value)
        \/ \E scope \in ProjectScopes, key \in ProjectKeys : RetrieveData(p, scope, key)
        \/ \E scope \in ProjectScopes, key \in ProjectKeys : DeleteData(p, scope, key)
        \/ \E scope \in ProjectScopes : ListKeysTool(p, scope)
        \/ \E pattern \in ToolPatterns : ListScopesTool(p, pattern)
        \/ \E scope \in ProjectScopes : DeleteScopeTool(p, scope)

ProjectSpec == Init /\ [][ProjectNext]_vars

(***************************************************************************)
(* The adapter called directly, as its tests do                            *)
(***************************************************************************)
AdapterStep(op, args, o, now) ==
    /\ files' = o.files
    /\ clock' = now
    /\ last' = Call(op, "", args, o, files, current_session)
    /\ calls' = calls + 1
    /\ UNCHANGED <<current_session, factory, inflight>>

AdapterStore(scope, key, value) ==
    /\ calls < MaxAdapterCalls
    /\ \E now \in Now(clock) :
        AdapterStep("store", [NoArgs EXCEPT !.scope = scope, !.key = key, !.value = value],
                    store(files, scope, key, value, now), now)

AdapterRetrieve(scope, key) ==
    /\ calls < MaxAdapterCalls
    /\ AdapterStep("retrieve", [NoArgs EXCEPT !.scope = scope, !.key = key],
                retrieve(files, scope, key), clock)

AdapterDelete(scope, key) ==
    /\ calls < MaxAdapterCalls
    /\ AdapterStep("delete", [NoArgs EXCEPT !.scope = scope, !.key = key],
                delete(files, scope, key), clock)

AdapterListKeys(scope) ==
    /\ calls < MaxAdapterCalls
    /\ AdapterStep("list_keys", [NoArgs EXCEPT !.scope = scope],
                list_keys(files, scope), clock)

AdapterListScopes(pattern) ==
    /\ calls < MaxAdapterCalls
    /\ AdapterStep("list_scopes", [NoArgs EXCEPT !.pattern = pattern],
                list_scopes(files, pattern), clock)

AdapterDeleteScope(scope) ==
    /\ calls < MaxAdapterCalls
    /\ AdapterStep("delete_scope", [NoArgs EXCEPT !.scope = scope],
                delete_scope(files, scope), clock)

AdapterNext ==
    \/ \E scope \in AdapterScopes, key \in AdapterKeys, value \in AdapterValues :
           AdapterStore(scope, key, value)
    \/ \E scope \in AdapterScopes, key \in AdapterKeys : AdapterRetrieve(scope, key)
    \/ \E scope \in AdapterScopes, key \in AdapterKeys : AdapterDelete(scope, key)
    \/ \E scope \in AdapterScopes : AdapterListKeys(scope)
    \/ \E pattern \in AdapterPatterns : AdapterListScopes(pattern)
    \/ \E scope \in AdapterScopes : AdapterDeleteScope(scope)

AdapterSpec == Init /\ [][AdapterNext]_vars

(***************************************************************************)
(* The readers: tools, resources and prompt of the server, and the         *)
(* adapter's read operations                                               *)
(***************************************************************************)
\* a read of the resource session://context by process p
GetSessionContext(p) ==
    /\ calls < MaxCalls
    /\ ServerStep(p, "get_session_context", NoArgs,
                  get_session_context(files, current_session[p], machine_id[p],
                                      project_id[p]),
                  clock)

\* a read of the resource session://state/{instance_id} by process p
GetSessionState(p, instance_id) ==
    /\ calls < MaxCalls
    /\ ServerStep(p, "get_session_state", [NoArgs EXCEPT !.session_id = instance_id],
                  get_session_state(files, current_session[p], machine_id[p],
                                    project_id[p], instance_id),
                  clock)

\* the startup prompt shown to process p
Startup(p) ==
    /\ calls < MaxCalls
    /\ ServerStep(p, "startup", NoArgs,
                  startup(files, current_session[p], machine_id[p], project_id[p]),
                  clock)

\* logical scopes of the calls beside the resources: a session's own scope
\* "session:claude_1" and the registry's
ResourceScopes ==
    {<<"s", "e", "s", "s", "i", "o", "n", ":">> \o InstanceChars["claude_1"], Instances}

\* keys of these calls: one the resources read, and one they do not
ResourceKeys == {"status", "registry"}

\* the system in which the processes sign on and off, store, and read
\* through the tools, the resources, the prompt and the adapter itself
ResourceNext ==
    \E p \in Procs :
        \/ SignOn(p, "")
        \/ SignOff(p)
        \/ \E scope \in ResourceScopes, value \in ToolValues :
               StoreData(p, scope, "status", value)
        \/ \E scope \in ResourceScopes, key \in ResourceKeys : RetrieveData(p, scope, key)
        \/ \E scope \in ResourceScopes : ListKeysTool(p, scope)
        \/ \E pattern \in ToolPatterns : ListScopesTool(p, pattern)
        \/ GetSessionContext(p)
        \/ \E instance_id \in {"claude_1", "claude_2"} : GetSessionState(p, instance_id)
        \/ Startup(p)
        \/ \E scope \in AdapterScopes, key \in AdapterKeys : AdapterRetrieve(scope, key)
        \/ \E scope \in AdapterScopes : AdapterListKeys(scope)
        \/ \E pattern \in AdapterPatterns : AdapterListScopes(pattern)

ResourceSpec == Init /\ [][ResourceNext]_vars

(***************************************************************************)
(* The adapter's writing operations on a few keys, three calls deep        *)
(***************************************************************************)
\* values stored where the kind of value makes no difference
RecordValues == {PyStr("blocked")}

\* a value json.dump rejects: a function
FaultValues == {PyCallable}

Store(scope, key, value) ==
    /\ calls < MaxRecordCalls
    /\ \E now \in Now(clock) :
        AdapterStep("store", [NoArgs EXCEPT !.scope = scope, !.key = key, !.value = value],
                    store(files, scope, key, value, now), now)

Delete(scope, key) ==
    /\ calls < MaxRecordCalls
    /\ AdapterStep("delete", [NoArgs EXCEPT !.scope = scope, !.key = key],
                delete(files, scope, key), clock)

DeleteScope(scope) ==
    /\ calls < MaxRecordCalls
    /\ AdapterStep("delete_scope", [NoArgs EXCEPT !.scope = scope],
                delete_scope(files, scope), clock)

RecordNext ==
    \/ \E scope \in AdapterScopes, key \in AdapterKeys, value \in RecordValues :
           Store(scope, key, value)
    \/ \E scope \in AdapterScopes, key \in AdapterKeys : Delete(scope, key)
    \/ \E scope \in AdapterScopes : DeleteScope(scope)

RecordSpec == Init /\ [][RecordNext]_vars

\* the same calls, and stores of values that are not JSON-serializable
FaultNext ==
    \/ \E scope \in AdapterScopes, key \in AdapterKeys,
          value \in RecordValues \cup FaultValues : Store(scope, key, value)
    \/ \E scope \in AdapterScopes, key \in AdapterKeys : Delete(scope, key)
    \/ \E scope \in AdapterScopes : DeleteScope(scope)

FaultSpec == Init /\ [][FaultNext]_vars

(***************************************************************************)
(* Processes whose calls interleave at the file operations                 *)
(* A call is a sequence of file operations: json.load of a scope file,     *)
(* open(path, "w"), which truncates it, and json.dump with the close.      *)
(* Another process may run between any two of them.                        *)
(***************************************************************************)
\* _save_scope_data, open(scope_path, "w"): the file is there and empty
save_open(fs, scope) == WriteFile(fs, get_scope_path(scope), JsonInvalid)

\* _save_scope_data, json.dump(data, f) and the close of the file
save_dump(fs, scope, data) == WriteFile(fs, get_scope_path(scope), json_dump(data))

\* scope and keys the racing stores write: "m:o/r:i:4"
RaceScopes == {<<"m", ":", "o", "/", "r", ":", "i", ":", "4">>}

Free(p) == inflight[p].pc \in {"idle", "returned"}

\* process p goes on to the next file operation of its call
Proceed(p, rec, now) ==
    /\ inflight' = [inflight EXCEPT ![p] = rec]
    /\ clock' = now
    /\ UNCHANGED <<files, current_session, last, factory>>

\* the call of process p returns result or raises; last records the directory
\* and the sessions as they were just before
Return(p, rec, raised, result, fs, session) ==
    /\ inflight' = [inflight EXCEPT ![p] = [rec EXCEPT !.pc = "returned", !.raised = raised]]
    /\ files' = fs
    /\ current_session' = [current_session EXCEPT ![p] = session]
    /\ last' = Call(rec.op, p, rec.args, [raised |-> raised, result |-> result],
                    files, current_session)
    /\ UNCHANGED <<clock, factory>>

\* store(scope, key, value) of process p's adapter, to the end of the load
BeginStore(p, scope, key, value) ==
    /\ calls < MaxRaceCalls
    /\ Free(p)
    /\ calls' = calls + 1
    /\ LET loaded == load_scope_data(files, scope)
           rec == [Idle EXCEPT !.op = "store", !.scope = scope,
                               !.args = [NoArgs EXCEPT !.scope = scope, !.key = key,
                                                       !.value = value]]
       IN IF loaded.raised # <<>>
          THEN Return(p, rec, loaded.raised, PyNone, files, current_session[p])
          ELSE \E now \in Now(clock) :
                  Proceed(p, [rec EXCEPT !.pc = "open", !.loaded = loaded.data,
                                         !.scope_data = store_update(loaded.data, key,
                                                                     value, now)],
                          now)

\* sign_on(session_id) of process p; without an id, to the end of the first
\* retrieve
BeginSignOn(p, session_id) ==
    /\ calls < MaxRaceCalls
    /\ Free(p)
    /\ calls' = calls + 1
    /\ LET scope == InstancesScope(machine_id[p], project_id[p])
           r1 == retrieve(files, scope, "registry")
           rec == [Idle EXCEPT !.op = "sign_on", !.scope = scope,
                               !.args = [NoArgs EXCEPT !.session_id = session_id]]
       IN IF session_id # ""
          THEN Proceed(p, [rec EXCEPT !.pc = "retrieve", !.sid = session_id], clock)
          ELSE IF r1.raised # <<>>
          THEN Return(p, rec, r1.raised, PyNone, files, current_session[p])
          ELSE IF OrEmptyDict(r1.result).t # "dict"
          THEN Return(p, rec, <<PyRaise("AttributeError")>>, PyNone, files,
                      current_session[p])
          ELSE Proceed(p, [rec EXCEPT !.pc = "retrieve",
                                      !.sid = FirstAvailable(OrEmptyDict(r1.result),
                                                             "claude_1")],
                       clock)

\* sign_on, "Mark as taken": the retrieve and instances[session_id] = "taken"
SignOnRetrieve(p) ==
    /\ inflight[p].pc = "retrieve"
    /\ UNCHANGED calls
    /\ LET rec == inflight[p]
           r2 == retrieve(files, rec.scope, "registry")
       IN IF r2.raised # <<>>
          THEN Return(p, rec, r2.raised, PyNone, files, current_session[p])
          ELSE IF OrEmptyDict(r2.result).t # "dict"
          THEN Return(p, rec, <<PyRaise("TypeError")>>, PyNone, files, current_session[p])
          ELSE Proceed(p, [rec EXCEPT !.pc = "load",
                                      !.instances = mark_taken(OrEmptyDict(r2.result),
                                                               rec.sid)],
                       clock)

\* sign_on, storage.store(instances_scope, "registry", instances), to the end
\* of the load
SignOnLoad(p) ==
    /\ inflight[p].pc = "load"
    /\ UNCHANGED calls
    /\ LET rec == inflight[p]
           loaded == load_scope_data(files, rec.scope)
       IN IF loaded.raised # <<>>
          THEN Return(p, rec, loaded.raised, PyNone, files, current_session[p])
          ELSE \E now \in Now(clock) :
                  Proceed(p, [rec EXCEPT !.pc = "open", !.loaded = loaded.data,
                                         !.scope_data = store_update(loaded.data, "registry",
                                                                     rec.instances, now)],
                          now)

\* _save_scope_data of the store process p is in: open(scope_path, "w")
SaveOpen(p) ==
    /\ inflight[p].pc = "open"
    /\ inflight' = [inflight EXCEPT ![p].pc = "dump"]
    /\ files' = save_open(files, inflight[p].scope)
    /\ UNCHANGED <<clock, current_session, last, calls, factory>>

\* _save_scope_data of the store process p is in: json.dump and the close;
\* store returns, sign_on sets current_session and returns it
SaveDump(p) ==
    /\ inflight[p].pc = "dump"
    /\ UNCHANGED calls
    /\ LET rec == inflight[p]
           fs == save_dump(files, rec.scope, rec.scope_data)
           context == Context(machine_id[p], project_id[p], rec.sid)
       IN IF rec.op = "sign_on"
          THEN Return(p, rec, <<>>, context, fs, <<context>>)
          ELSE Return(p, rec, <<>>, PyNone, fs, current_session[p])

RaceNext ==
    \E p \in Procs :
        \/ \E scope \in RaceScopes, key \in AdapterKeys, value \in RecordValues :
               BeginStore(p, scope, key, value)
        \/ \E sid \in SessionIds : BeginSignOn(p, sid)
        \/ SignOnRetrieve(p)
        \/ SignOnLoad(p)
        \/ SaveOpen(p)
        \/ SaveDump(p)

RaceSpec == Init /\ [][RaceNext]_vars

(***************************************************************************)
(* The adapter called with scopes of any shape                             *)
(***************************************************************************)
\* a scope of the standard format machine:owner/repo:type:id[:...]
StandardScope(machine, owner, repo, rest) ==
    machine \o <<":">> \o owner \o <<"/">> \o repo \o <<":">> \o Join(rest, <<":">>)

\* "m:o/r:s:1", "d:o/r:i:s" and "m:o/r__k:s:1"
StandardScopes ==
    {StandardScope(<<"m">>, <<"o">>, <<"r">>, << <<"s">>, <<"1">> >>),
     StandardScope(<<"d">>, <<"o">>, <<"r">>, << <<"i">>, <<"s">> >>),
     StandardScope(<<"m">>, <<"o">>, <<"r", "_", "_", "k">>, << <<"s">>, <<"1">> >>)}

\* scopes the adapter accepts that are not of the standard format:
\* "m:o:r:s:1" and "m"
OtherScopes == {<<"m", ":", "o", ":", "r", ":", "s", ":", "1">>, <<"m">>}

AnyScopes == StandardScopes \cup OtherScopes

ScopeKeys == {"status"}

ScopeNext ==
    \/ \E scope \in AnyScopes, key \in ScopeKeys, value \in RecordValues :
           AdapterStore(scope, key, value)
    \/ \E scope \in AnyScopes, key \in ScopeKeys : AdapterRetrieve(scope, key)
    \/ \E scope \in AnyScopes, key \in ScopeKeys : AdapterDelete(scope, key)
    \/ \E scope \in AnyScopes : AdapterListKeys(scope)
    \/ \E pattern \in AdapterPatterns : AdapterListScopes(pattern)
    \/ \E scope \in AnyScopes : AdapterDeleteScope(scope)

ScopeSpec == Init /\ [][ScopeNext]_vars

(***************************************************************************)
(* The adapter factory                                                     *)
(***************************************************************************)
\* names given to register_adapter
FactoryNames == {"local", "custom"}

\* constructors given to register_adapter
Constructors == {"_create_local_adapter", "create_custom", "failing_creator"}

ConfigOf(adapter_type, adapter_config) ==
    PyDict(<< <<"adapter", PyStr(adapter_type)>>, <<"config", adapter_config>> >>)

\* configurations given to create_adapter: without "adapter", with an empty
\* one, and with a registered or unregistered name
FactoryConfigs ==
    {PyDict(<< <<"config", EmptyDict>> >>),
     ConfigOf("", EmptyDict),
     ConfigOf("local", EmptyDict),
     ConfigOf("custom", PyDict(<< <<"custom_param", PyStr("test_value")>> >>)),
     ConfigOf("unknown", EmptyDict)}

\* the effect of a call on the factory; the call is recorded with the
\* factory it started from
FactoryStep(op, args, raised, result, fac) ==
    /\ factory' = fac
    /\ last' = [op |-> op, proc |-> "", args |-> args, raised |-> raised,
                result |-> result, pre_files |-> files,
                pre_sessions |-> current_session, pre_factory |-> factory]
    /\ calls' = calls + 1
    /\ UNCHANGED <<files, clock, current_session, inflight>>

RegisterAdapter(name, constructor) ==
    /\ calls < MaxFactoryCalls
    /\ FactoryStep("register_adapter", [name |-> name, constructor |-> constructor],
                   <<>>, PyNone, register_adapter(factory, name, constructor))

CreateAdapter(config) ==
    /\ calls < MaxFactoryCalls
    /\ LET o == create_adapter(factory, config)
       IN FactoryStep("create_adapter", [config |-> config], o.raised, o.result, o.factory)

FactoryNext ==
    \/ \E name \in FactoryNames, constructor \in Constructors :
           RegisterAdapter(name, constructor)
    \/ \E config \in FactoryConfigs : CreateAdapter(config)

FactorySpec == Init /\ [][FactoryNext]_vars

(***************************************************************************)
(* detection.py: the project identifier of the working directory           *)
(***************************************************************************)
\* str.startswith(prefix)
StartsWith(s, prefix) ==
    /\ Len(s) >= Len(prefix)
    /\ SubSeq(s, 1, Len(prefix)) = prefix

\* str.replace(old, ""): every occurrence of old, left to right, is removed
RECURSIVE Remove(_, _)
Remove(s, old) ==
    IF s = <<>> THEN <<>>
    ELSE IF StartsWith(s, old)
         THEN Remove(SubSeq(s, Len(old) + 1, Len(s)), old)
         ELSE <<Head(s)>> \o Remove(Tail(s), old)

\* str.split(c) for a separator c of one character: cur is the part being read
RECURSIVE SplitChar(_, _, _)
SplitChar(s, c, cur) ==
    IF s = <<>> THEN <<cur>>
    ELSE IF Head(s) = c
         THEN <<cur>> \o SplitChar(Tail(s), c, <<>>)
         ELSE SplitChar(Tail(s), c, Append(cur, Head(s)))

\* str.rstrip(chars) and str.lstrip(chars)
RECURSIVE RStrip(_, _)
RStrip(s, chars) ==
    IF s # <<>> /\ s[Len(s)] \in chars
    THEN RStrip(SubSeq(s, 1, Len(s) - 1), chars)
    ELSE s

RECURSIVE LStrip(_, _)
LStrip(s, chars) ==
    IF s # <<>> /\ Head(s) \in chars THEN LStrip(Tail(s), chars) ELSE s

\* str.strip()
Strip(s) ==
    LET whitespace == {" ", "\n", "\t", "\r"} IN
    LStrip(RStrip(s, whitespace), whitespace)

DotGit == <<".", "g", "i", "t">>
GitAt == <<"g", "i", "t", "@">>
HttpPrefix == <<"h", "t", "t", "p", ":", "/", "/">>
HttpsPrefix == <<"h", "t", "t", "p", "s", ":", "/", "/">>

\* run is what `git remote get-url origin` did: ok is FALSE when the command
\* failed or timed out, stdout is what it printed; cwd_name is Path.cwd().name,
\* what _detect_project_from_directory returns
detect_project_from_git(run, cwd_name) ==
    IF ~run.ok THEN cwd_name
    ELSE
    LET remote_url == Strip(run.stdout) IN
    IF StartsWith(remote_url, GitAt)
    THEN LET parts == SplitChar(remote_url, ":", <<>>) IN
         IF Len(parts) >= 2 THEN Remove(parts[2], DotGit)
         ELSE cwd_name
    ELSE IF StartsWith(remote_url, HttpPrefix) \/ StartsWith(remote_url, HttpsPrefix)
    THEN LET parts == SplitChar(RStrip(remote_url, {"/"}), "/", <<>>) IN
         IF Len(parts) >= 2
         THEN parts[Len(parts) - 1] \o <<"/">> \o Remove(parts[Len(parts)], DotGit)
         ELSE cwd_name
    ELSE cwd_name

\* detect_project_id(config), by the project_detection method of the config
detect_project_id_by(method, run, cwd_name) ==
    IF method = "git"
    THEN [raised |-> <<>>, result |-> detect_project_from_git(run, cwd_name)]
    ELSE IF method = "directory"
    THEN [raised |-> <<>>, result |-> cwd_name]
    ELSE [raised |-> <<"ValueError", "Unknown project detection method">>,
          result |-> <<>>]

(***************************************************************************)
(* The detection called on the remotes of small repositories               *)
(***************************************************************************)
\* owner and repository names, with and without the substring ".git"
OwnerNames == {<<"o">>, <<"a", ".", "g", "i", "t", "b">>}
RepoNames ==
    {<<"r">>, <<"m", "y", ".", "g", "i", "t", "h", "u", "b">>,
     <<"r", ".", "g", "i", "t">>}

HostName == <<"h", ".", "c">>

\* the remote URL of owner/repo in each of the forms git prints; suffix is
\* ".git" or empty
SshUrl(owner, repo, suffix) ==
    GitAt \o HostName \o <<":">> \o owner \o <<"/">> \o repo \o suffix
HttpUrl(prefix, owner, repo, suffix) ==
    prefix \o HostName \o <<"/">> \o owner \o <<"/">> \o repo \o suffix

UrlsOf(owner, repo, suffix) ==
    {SshUrl(owner, repo, suffix), HttpUrl(HttpsPrefix, owner, repo, suffix),
     HttpUrl(HttpPrefix, owner, repo, suffix)}

RemoteUrls ==
    UNION {UrlsOf(owner, repo, suffix)
               \cup {Append(HttpUrl(HttpsPrefix, owner, repo, suffix), "/")}
               : <<owner, repo, suffix>> \in OwnerNames \X RepoNames \X {DotGit, <<>>}}

\* what the git command did: it printed a remote and a newline, it printed a
\* local path, or it failed
GitRuns ==
    {[ok |-> TRUE, stdout |-> Append(url, "\n")] : url \in RemoteUrls}
        \cup {[ok |-> TRUE, stdout |-> <<"/", "s", "r", "v", "\n">>],
              [ok |-> FALSE, stdout |-> <<>>]}

DetectionMethods == {"git", "directory", "svn"}
CwdName == <<"w", "d">>

DetectProjectId(method, run) ==
    /\ calls < MaxDetectCalls
    /\ LET o == detect_project_id_by(method, run, CwdName) IN
       last' = [op |-> "detect_project_id", proc |-> "",
                args |-> [method |-> method, run |-> run],
                raised |-> o.raised, result |-> o.result,
                pre_files |-> files, pre_sessions |-> current_session]
    /\ calls' = calls + 1
    /\ UNCHANGED <<files, clock, current_session, factory, inflight>>

DetectNext == \E method \in DetectionMethods, run \in GitRuns : DetectProjectId(method, run)

DetectSpec == Init /\ [][DetectNext]_vars

(***************************************************************************)
(* Observations used by the properties                                     *)
(***************************************************************************)
\* the keys a scope holds
StoredKeys(fs, scope) ==
    LET keys == list_keys(fs, scope).result IN {keys.v[i] : i \in 1..Len(keys.v)}

\* the persisted scope record: the dict _load_scope_data yields
ScopeRecord(fs, scope) == load_scope_data(fs, scope).data

\* value, created_at and updated_at of a key a scope holds
Entry(fs, scope, key) ==
    <<DictGet(DictGet(ScopeRecord(fs, scope), "data"), key),
      DictGet(DictGet(ScopeRecord(fs, scope), "metadata"), key)>>

\* the instance registry of process p's (machine, project) is absent
RegistryAbsent(fs, p) ==
    "registry" \notin StoredKeys(fs, InstancesScope(machine_id[p], project_id[p]))

\* the persisted instance registry of process p's (machine, project)
Registry(fs, p) ==
    OrEmptyDict(retrieve(fs, InstancesScope(machine_id[p], project_id[p]),
                         "registry").result)

\* the status the registry records for a slot, "" when it records none
Recorded(registry, slot) ==
    IF DictHas(registry, slot) THEN DictGet(registry, slot).v ELSE ""

SignedOn(p) == current_session[p] # <<>>

WasSignedOn(p) == last.pre_sessions[p] # <<>>

DataTools ==
    {"store_data", "retrieve_data", "delete_data", "list_keys", "list_scopes",
     "delete_scope"}

(***************************************************************************)
(* Properties                                                              *)
(***************************************************************************)
\* C1: when every process signs on without an id, no two processes that are
\* signed on at the same time hold the same session_id.
C1_NoCollision ==
    \A p, q \in Procs :
        (p # q /\ SignedOn(p) /\ SignedOn(q))
            => current_session[p][1].session_id # current_session[q][1].session_id

\* C2: sign_on() without an id by an Unsigned process whose registry is absent
\* returns session_id "claude_1" and full_scope_prefix machine ":" project,
\* and the persisted registry then records claude_1 as "taken".
C2_FirstSignOn ==
    (/\ last.op = "sign_on"
     /\ last.args.session_id = ""
     /\ ~WasSignedOn(last.proc)
     /\ RegistryAbsent(last.pre_files, last.proc))
        => /\ last.raised = <<>>
           /\ last.result.session_id = "claude_1"
           /\ last.result.full_scope_prefix
                  = machine_id[last.proc] \o <<":">> \o project_id[last.proc]
           /\ Recorded(Registry(files, last.proc), "claude_1") = "taken"

\* C2 happens: a sign_on() without an id on an absent registry has returned
C2_Witness ==
    /\ last.op = "sign_on"
    /\ last.args.session_id = ""
    /\ ~WasSignedOn(last.proc)
    /\ RegistryAbsent(last.pre_files, last.proc)
    /\ last.raised = <<>>

\* the registry persisted by one sign_on() without an id on an absent registry
RegistryAfterFirstSignOn(p) ==
    OrEmptyDict(retrieve(sign_on(<<>>, <<>>, machine_id[p], project_id[p], "", 0).files,
                         InstancesScope(machine_id[p], project_id[p]),
                         "registry").result)

\* C3: from an absent registry, after one process has signed on without an id
\* and not signed off, a sign_on() without an id from another process is
\* assigned "claude_2".
C3_SecondSignOn ==
    (/\ last.op = "sign_on"
     /\ last.args.session_id = ""
     /\ ~WasSignedOn(last.proc)
     /\ \E q \in Procs \ {last.proc} : WasSignedOn(q)
     /\ Registry(last.pre_files, last.proc) = RegistryAfterFirstSignOn(last.proc))
        => /\ last.raised = <<>>
           /\ last.result.session_id = "claude_2"

C6_SignOffIdempotent ==
    (last.op = "sign_off" /\ ~WasSignedOn(last.proc))
        => /\ last.raised = <<>>
           /\ last.result = NoActiveSession
           /\ files = last.pre_files
           /\ current_session = last.pre_sessions

\* C6 happens: sign_off() is called by an Unsigned process after a release
\* was recorded, as by a second sign_off() in a row
C6_Witness ==
    /\ last.op = "sign_off"
    /\ ~WasSignedOn(last.proc)
    /\ \E slot \in KeySet(Registry(last.pre_files, last.proc)) :
           Recorded(Registry(last.pre_files, last.proc), slot) = "available"

\* C7: each data tool called by an Unsigned process fails with the
\* not-signed-on error and changes neither the storage nor any session context.
C7_RequireSignOn ==
    (last.op \in DataTools /\ ~WasSignedOn(last.proc))
        => /\ last.raised = NotSignedOn
           /\ files = last.pre_files
           /\ current_session = last.pre_sessions

\* C7 happens: delete_scope is called by an Unsigned process while the store
\* holds data
C7_Witness ==
    /\ last.op = "delete_scope"
    /\ ~WasSignedOn(last.proc)
    /\ DOMAIN last.pre_files # {}
    /\ last.raised # <<>>

\* C8: after store(S, K, V) of a JSON-compatible V, retrieve(S, K) returns V;
\* this covers a second store on the same key.
C8_RoundTrip ==
    (last.op = "store" /\ last.raised = <<>>)
        => LET got == retrieve(files, last.args.scope, last.args.key)
           IN got.raised = <<>> /\ got.result = last.args.value

\* C8 happens: a key that held another value has been stored again
C8_Witness ==
    /\ last.op = "store"
    /\ last.raised = <<>>
    /\ last.args.key \in StoredKeys(last.pre_files, last.args.scope)
    /\ retrieve(last.pre_files, last.args.scope, last.args.key).result.t
           # last.args.value.t

\* the key is stored in the scope and holds null
HoldsNull(fs, scope, key) ==
    /\ key \in StoredKeys(fs, scope)
    /\ Entry(fs, scope, key)[1].t = "none"

\* what a caller of retrieve observes
Observed(o) == <<o.raised, o.result>>

\* C9 as claimed: the result of retrieve for a missing key or scope differs
\* from its result for a key that holds null.
C9_AbsentDistinctFromNull ==
    \A s1 \in AdapterScopes, s2 \in AdapterScopes, k1 \in AdapterKeys, k2 \in AdapterKeys :
        (k1 \notin StoredKeys(files, s1) /\ HoldsNull(files, s2, k2))
            => Observed(retrieve(files, s1, k1)) # Observed(retrieve(files, s2, k2))

\* C9 as amended: retrieve returns None, without raising, when the key or the
\* scope does not exist, which is also what it returns for a key that holds null.
C9_AbsentIsNone ==
    /\ (last.op = "retrieve" /\ last.args.key \notin StoredKeys(last.pre_files, last.args.scope))
           => (last.raised = <<>> /\ last.result = PyNone)
    /\ \A s \in AdapterScopes, k \in AdapterKeys :
           HoldsNull(files, s, k) => Observed(retrieve(files, s, k)) = <<<<>>, PyNone>>

\* C9 happens: a missing key is retrieved while another key holds null
C9_Witness ==
    /\ last.op = "retrieve"
    /\ last.args.key \notin StoredKeys(last.pre_files, last.args.scope)
    /\ \E s \in AdapterScopes, k \in AdapterKeys : HoldsNull(files, s, k)

\* C10: store(S, K, V) leaves value, created_at and updated_at of every other
\* key of S as they were, and the keys of S become the previous keys plus K.
C10_SiblingsPreserved ==
    (last.op = "store" /\ last.raised = <<>>)
        => LET before == StoredKeys(last.pre_files, last.args.scope)
           IN /\ StoredKeys(files, last.args.scope) = before \cup {last.args.key}
              /\ \A k2 \in before \ {last.args.key} :
                     Entry(files, last.args.scope, k2)
                         = Entry(last.pre_files, last.args.scope, k2)

\* C10 happens: a key is stored at a later time than its sibling was
C10_Witness ==
    /\ last.op = "store"
    /\ last.raised = <<>>
    /\ \E k2 \in StoredKeys(last.pre_files, last.args.scope) \ {last.args.key} :
           DictGet(Entry(files, last.args.scope, k2)[2], "updated_at").v < clock

\* the calls of the adapter that write
Writes == {"store", "delete", "delete_scope"}

\* C11: store, delete and delete_scope applied to a scope S1 leave the
\* result of retrieve(S2, K) and of list_keys(S2) unchanged for every scope
\* S2 different from S1 and every key K.
C11_ScopesIndependent ==
    last.op \in Writes
        => \A S2 \in AnyScopes \ {last.args.scope} :
               /\ Observed(list_keys(files, S2)) = Observed(list_keys(last.pre_files, S2))
               /\ \A K \in ScopeKeys :
                      Observed(retrieve(files, S2, K))
                          = Observed(retrieve(last.pre_files, S2, K))

\* the identifiers list_scopes() yields
ListedScopes(fs) ==
    LET scopes == list_scopes(fs, <<>>).result.v IN {scopes[i] : i \in 1..Len(scopes)}

NotSerializable == <<PyRaise("StorageError: Value is not JSON-serializable")>>

\* C12: a store(S, K, V) whose value is not JSON-serializable raises the
\* not-serializable storage error and leaves the stored state as it was: the
\* value of K, every sibling key of S, and whether list_scopes() contains S.
C12_FailedStoreChangesNothing ==
    (last.op = "store" /\ ~JsonSerializable(last.args.value))
        => /\ last.raised = NotSerializable
           /\ \A K \in AdapterKeys :
                  Observed(retrieve(files, last.args.scope, K))
                      = Observed(retrieve(last.pre_files, last.args.scope, K))
           /\ (last.args.scope \in ListedScopes(files))
                  <=> (last.args.scope \in ListedScopes(last.pre_files))

NoKeys == <<<<>>, PyList(<<>>)>>

\* C13: a delete(S, K) of the last key S holds removes the scope record:
\* list_scopes() no longer contains S and list_keys(S) is empty; a delete of
\* a key of a scope that holds other keys keeps the record, listed, with the
\* other keys and their entries as they were.
C13_DeleteLastKey ==
    LET S == last.args.scope
        K == last.args.key
        before == StoredKeys(last.pre_files, S)
    IN (last.op = "delete" /\ K \in before)
        => /\ last.raised = <<>>
           /\ IF before = {K}
              THEN /\ S \notin ListedScopes(files)
                   /\ get_scope_path(S) \notin DOMAIN files
                   /\ Observed(list_keys(files, S)) = NoKeys
              ELSE /\ S \in ListedScopes(files)
                   /\ StoredKeys(files, S) = before \ {K}
                   /\ \A K2 \in before \ {K} :
                          Entry(files, S, K2) = Entry(last.pre_files, S, K2)

\* C13 happens: the last key of a scope has been deleted while another scope
\* still holds a record
C13_Witness ==
    /\ last.op = "delete"
    /\ StoredKeys(last.pre_files, last.args.scope) = {last.args.key}
    /\ ListedScopes(files) # {}

\* a key of a scope that holds two keys has been deleted
C13_WitnessOtherKeys ==
    /\ last.op = "delete"
    /\ last.args.key \in StoredKeys(last.pre_files, last.args.scope)
    /\ StoredKeys(files, last.args.scope) # {}

\* the record a persisted file holds
FileRecord(fs, f) == json_load(fs[f])

\* C14: in every state reached by store, delete and delete_scope calls,
\* failing calls included, every persisted scope record is a whole record
\* whose data mapping is not empty and has the same keys as its metadata
\* mapping.
C14_RecordInvariant ==
    \A f \in DOMAIN files :
        /\ files[f].j # "invalid"
        /\ DictHas(FileRecord(files, f), "data")
        /\ DictHas(FileRecord(files, f), "metadata")
        /\ KeySet(DictGet(FileRecord(files, f), "data")) # {}
        /\ KeySet(DictGet(FileRecord(files, f), "data"))
               = KeySet(DictGet(FileRecord(files, f), "metadata"))

\* created_at and updated_at of a key a scope holds, in ticks
CreatedAt(fs, scope, key) == DictGet(Entry(fs, scope, key)[2], "created_at").v

UpdatedAt(fs, scope, key) == DictGet(Entry(fs, scope, key)[2], "updated_at").v

\* C15: the first store of a key sets its created_at and updated_at to the
\* time of the store; a later store on the key leaves created_at as it was
\* and sets updated_at to its own time, which is not before the previous
\* updated_at nor before created_at; and no call changes created_at, or
\* moves updated_at back, of any key that stays present.
C15_Timestamps ==
    /\ \A S \in AdapterScopes :
           \A K \in StoredKeys(files, S) \cap StoredKeys(last.pre_files, S) :
               /\ CreatedAt(files, S, K) = CreatedAt(last.pre_files, S, K)
               /\ UpdatedAt(files, S, K) >= UpdatedAt(last.pre_files, S, K)
               /\ UpdatedAt(files, S, K) >= CreatedAt(files, S, K)
    /\ (last.op = "store" /\ last.raised = <<>>)
           => /\ UpdatedAt(files, last.args.scope, last.args.key) = clock
              /\ last.args.key \notin StoredKeys(last.pre_files, last.args.scope)
                     => CreatedAt(files, last.args.scope, last.args.key) = clock

\* C15 happens: a key has been stored again at a later time
C15_Witness ==
    /\ last.op = "store"
    /\ last.raised = <<>>
    /\ last.args.key \in StoredKeys(last.pre_files, last.args.scope)
    /\ UpdatedAt(files, last.args.scope, last.args.key)
           > UpdatedAt(last.pre_files, last.args.scope, last.args.key)

\* C16: delete(S, K) returns True exactly when S held K before the call;
\* when the key or the scope does not exist it returns False, raises nothing
\* and leaves the directory as it was, creating no file.
C16_DeleteResult ==
    LET existed == last.args.key \in StoredKeys(last.pre_files, last.args.scope)
    IN last.op = "delete"
        => /\ last.raised = <<>>
           /\ last.result = PyBool(existed)
           /\ ~existed => files = last.pre_files

\* C16 happens: delete has been called for a key its scope does not hold
\* while the scope holds another key
C16_Witness ==
    /\ last.op = "delete"
    /\ last.args.key \notin StoredKeys(last.pre_files, last.args.scope)
    /\ StoredKeys(last.pre_files, last.args.scope) # {}

\* C17: delete_scope(S) returns True exactly when a file of S existed; after
\* it list_keys(S) is [], retrieve(S, K) is None for every key and
\* list_scopes() does not contain S; for a scope without a file it returns
\* False and the directory is as it was.
C17_DeleteScope ==
    LET S == last.args.scope
        existed == get_scope_path(S) \in DOMAIN last.pre_files
    IN last.op = "delete_scope"
        => /\ last.raised = <<>>
           /\ last.result = PyBool(existed)
           /\ existed <=> StoredKeys(last.pre_files, S) # {}
           /\ Observed(list_keys(files, S)) = NoKeys
           /\ \A K \in AdapterKeys : Observed(retrieve(files, S, K)) = <<<<>>, PyNone>>
           /\ S \notin ListedScopes(files)
           /\ ~existed => files = last.pre_files

\* C17 happens: a scope that held two keys has been deleted
C17_Witness ==
    /\ last.op = "delete_scope"
    /\ Cardinality(StoredKeys(last.pre_files, last.args.scope)) = 2
    /\ last.result = PyBool(TRUE)

\* C18: after a store(S, K, V) on a scope S of the standard format
\* machine:owner/repo:type:id, list_scopes() contains S itself, and the store
\* has added no identifier other than S to it.
C18_StandardRoundTrip ==
    (last.op = "store" /\ last.raised = <<>> /\ last.args.scope \in StandardScopes)
        => /\ last.args.scope \in ListedScopes(files)
           /\ ListedScopes(files) \ ListedScopes(last.pre_files) \subseteq {last.args.scope}

\* the segments of a scope: its parts between ":" delimiters; cur is the
\* segment being read
RECURSIVE SplitColon(_, _)
SplitColon(s, cur) ==
    IF s = <<>> THEN <<cur>>
    ELSE IF Head(s) = ":" THEN <<cur>> \o SplitColon(Tail(s), <<>>)
    ELSE SplitColon(Tail(s), Append(cur, Head(s)))

Segments(scope) == SplitColon(scope, <<>>)

\* the identifiers list_scopes(pattern) yields
Matching(fs, pattern) ==
    LET scopes == list_scopes(fs, pattern).result.v IN {scopes[i] : i \in 1..Len(scopes)}

MachinePattern == <<"m", ":", "*">>

SessionPattern == <<"*", ":", "s", ":", "*">>

\* C19 as stated: list_scopes("m:*") yields exactly the listed scopes whose
\* first segment is "m", and list_scopes("*:s:*") exactly the listed scopes
\* that have a segment "s", at any position.
C19_PatternSegments ==
    /\ Matching(files, MachinePattern)
           = {s \in ListedScopes(files) : Segments(s)[1] = <<"m">>}
    /\ Matching(files, SessionPattern)
           = {s \in ListedScopes(files) :
                  \E i \in 1..Len(Segments(s)) : Segments(s)[i] = <<"s">>}

\* C19, amended: list_scopes("m:*") yields exactly the listed scopes that
\* begin with "m:" (first segment "m" and a further segment after it), and
\* list_scopes("*:s:*") exactly the listed scopes in which a segment "s" has
\* a segment before it and a segment after it.
C19_PatternGlob ==
    LET machine == {s \in ListedScopes(files) :
                       Len(Segments(s)) >= 2 /\ Segments(s)[1] = <<"m">>}
        session == {s \in ListedScopes(files) :
                       \E i \in 2..(Len(Segments(s)) - 1) : Segments(s)[i] = <<"s">>}
    IN /\ Matching(files, MachinePattern) = machine
       /\ Matching(files, SessionPattern) = session
       /\ (last.op = "list_scopes" /\ last.args.pattern = MachinePattern)
              => {last.result.v[i] : i \in 1..Len(last.result.v)} = machine
       /\ (last.op = "list_scopes" /\ last.args.pattern = SessionPattern)
              => {last.result.v[i] : i \in 1..Len(last.result.v)} = session

\* C19 happens: list_scopes("*:s:*") has left out a listed scope whose last
\* segment is "s"
C19_Witness ==
    /\ last.op = "list_scopes"
    /\ last.args.pattern = SessionPattern
    /\ \E s \in ListedScopes(files) :
           /\ Segments(s)[Len(Segments(s))] = <<"s">>
           /\ s \notin {last.result.v[i] : i \in 1..Len(last.result.v)}

\* xs is in lexicographic order
IsSorted(xs) ==
    \A i \in 1..(Len(xs) - 1) : xs[i] = xs[i + 1] \/ StrLess(xs[i], xs[i + 1])

\* list_scopes yields a sorted list for every pattern, and without a pattern
\* one identifier for each persisted scope record
SortedOnePerRecord ==
    /\ \A pattern \in AdapterPatterns : IsSorted(list_scopes(files, pattern).result.v)
    /\ last.op = "list_scopes" => IsSorted(last.result.v)
    /\ Len(list_scopes(files, <<>>).result.v) = Cardinality(DOMAIN files)
    /\ Cardinality(ListedScopes(files)) = Cardinality(DOMAIN files)

\* C20: the result of list_scopes is sorted in every state and for every
\* pattern, and without a pattern it contains every scope that holds at
\* least one key, with one identifier for each persisted scope record.
C20_SortedAllScopes ==
    /\ SortedOnePerRecord
    /\ \A S \in StandardScopes : StoredKeys(files, S) # {} => S \in ListedScopes(files)

\* the tools that delegate one call to the adapter on the prefixed scope
ScopedTools == {"store_data", "retrieve_data", "delete_data", "list_keys", "delete_scope"}

\* the adapter scope machine:project:L of process p
PrefixedScope(p, L) == machine_id[p] \o <<":">> \o project_id[p] \o <<":">> \o L

\* the outcome of the adapter operation a scoped tool corresponds to, made on
\* scope S in directory fs with the arguments of the last call
AdapterOutcome(fs, S) ==
    CASE last.op = "store_data" -> store(fs, S, last.args.key, last.args.value, clock)
      [] last.op = "retrieve_data" -> retrieve(fs, S, last.args.key)
      [] last.op = "delete_data" -> delete(fs, S, last.args.key)
      [] last.op = "list_keys" -> list_keys(fs, S)
      [] last.op = "delete_scope" -> delete_scope(fs, S)

\* C21: for a signed-on process, store_data, retrieve_data, delete_data,
\* list_keys and delete_scope on a logical scope L raise, return and leave
\* the directory exactly as the corresponding adapter operation on the scope
\* machine:project:L does, change no file but that scope's, and leave the
\* sessions as they were.
C21_PrefixRefinement ==
    (last.op \in ScopedTools /\ WasSignedOn(last.proc))
        => LET S == PrefixedScope(last.proc, last.args.scope)
               o == AdapterOutcome(last.pre_files, S)
           IN /\ last.raised = o.raised
              /\ last.result = o.result
              /\ files = o.files
              /\ \A f \in (DOMAIN files \cup DOMAIN last.pre_files) \ {get_scope_path(S)} :
                     /\ f \in DOMAIN files
                     /\ f \in DOMAIN last.pre_files
                     /\ files[f] = last.pre_files[f]
              /\ current_session = last.pre_sessions

\* C21 happens: a signed-on process has stored a key in a logical scope other
\* than the registry's while the registry file exists
C21_Witness ==
    /\ last.op = "store_data"
    /\ WasSignedOn(last.proc)
    /\ last.raised = <<>>
    /\ last.args.scope # Instances
    /\ get_scope_path(PrefixedScope(last.proc, Instances)) \in DOMAIN files
    /\ get_scope_path(PrefixedScope(last.proc, last.args.scope)) \in DOMAIN files

\* the entries list_scopes(pattern) returns to a signed-on process p
Returned(fs, p, pattern) ==
    LET scopes == tool_list_scopes(fs, current_session[p], pattern).result.v
    IN {scopes[i] : i \in 1..Len(scopes)}

\* C22: for a signed-on process, whatever machine and project ids detection
\* supplied, after store_data(L, K, V) list_scopes() without a pattern
\* contains L, and it contains "instances" whenever the registry exists.
C22_ListsLogicalScope ==
    /\ (last.op = "store_data" /\ last.raised = <<>>)
           => last.args.scope \in Returned(files, last.proc, <<>>)
    /\ \A p \in Procs :
           (/\ SignedOn(p)
            /\ "registry" \in StoredKeys(files, FullScope(current_session[p], Instances)))
               => Instances \in Returned(files, p, <<>>)

\* processes p and q are signed on for different machines or projects
OtherProject(sessions, p, q) ==
    /\ sessions[p] # <<>>
    /\ sessions[q] # <<>>
    /\ <<sessions[p][1].machine, sessions[p][1].project>>
           # <<sessions[q][1].machine, sessions[q][1].project>>

\* C23: what list_scopes returns to a signed-on process, for every pattern,
\* holds no entry for data written by a session signed on for a different
\* machine or project: no call of such a session changes it.
C23_ListingIsolated ==
    \A p \in Procs \ {last.proc} :
        (/\ last.proc \in Procs
         /\ OtherProject(last.pre_sessions, p, last.proc)
         /\ SignedOn(p))
            => \A pattern \in ToolPatterns \cup {<<"*">>} :
                   Returned(files, p, pattern) = Returned(last.pre_files, p, pattern)

\* C24: sign_on and sign_off change only the key "registry" of the scope
\* machine:project:instances: every other file, and every other key of that
\* scope, is as it was, so what a session stored is retrieved with the same
\* value by every session of the machine and project afterwards.
C24_HandOff ==
    last.op \in {"sign_on", "sign_off"}
        => LET S == PrefixedScope(last.proc, Instances) IN
           /\ \A f \in (DOMAIN files \cup DOMAIN last.pre_files) \ {get_scope_path(S)} :
                  /\ f \in DOMAIN files
                  /\ f \in DOMAIN last.pre_files
                  /\ files[f] = last.pre_files[f]
           /\ StoredKeys(files, S) \ {"registry"} = StoredKeys(last.pre_files, S) \ {"registry"}
           /\ \A K \in StoredKeys(files, S) \ {"registry"} :
                  Entry(files, S, K) = Entry(last.pre_files, S, K)
           /\ \A q \in Procs, L \in LogicalScopes, K \in ToolKeys :
                  ~(L = Instances /\ K = "registry")
                      => Observed(retrieve(files, PrefixedScope(q, L), K))
                             = Observed(retrieve(last.pre_files, PrefixedScope(q, L), K))

\* C24 happens: a session has signed on or off while another scope, and
\* another key of the registry's scope, hold data
C24_Witness ==
    /\ last.op \in {"sign_on", "sign_off"}
    /\ last.raised = <<>>
    /\ last.result # NoActiveSession
    /\ \/ StoredKeys(files, PrefixedScope(last.proc, <<"i", ":", "4">>)) # {}
       \/ "status" \in StoredKeys(files, PrefixedScope(last.proc, Instances))

\* the adapter type a configuration names, "" when it names none
AdapterType(config) ==
    LET adapter_type == DictGetOr(config, "adapter", PyNone)
    IN IF adapter_type.t = "str" THEN adapter_type.v ELSE ""

\* the exception is the unknown-adapter-type error
IsUnknownAdapterType(raised) ==
    /\ raised # <<>>
    /\ raised[1].v[1] = "StorageError: Unknown adapter type: '"

\* the pieces of the message after "Available types: "
ListedTypes(raised) == {raised[1].v[i] : i \in 4..Len(raised[1].v)}

\* C25: create_adapter raises the unknown-adapter-type error exactly when
\* config names a non-empty adapter type that is not registered; the message
\* lists every registered type, and the failed call invokes no constructor
\* and leaves the registry as it was.
C25_UnknownAdapterType ==
    last.op = "create_adapter"
        => LET name == AdapterType(last.args.config)
               before == last.pre_factory
           IN /\ IsUnknownAdapterType(last.raised)
                     <=> (name # "" /\ ~DictHas(before.adapters, name))
              /\ IsUnknownAdapterType(last.raised)
                     => /\ last.raised[1].v[2] = name
                        /\ KeySet(before.adapters) \subseteq ListedTypes(last.raised)
                        /\ last.result = PyNone
                        /\ factory.invoked = before.invoked
              /\ factory.adapters = before.adapters

\* C25 happens: an unregistered type has been asked for while two types are
\* registered
C25_Witness ==
    /\ last.op = "create_adapter"
    /\ AdapterType(last.args.config) = "unknown"
    /\ KeySet(factory.adapters) = {"local", "custom"}
    /\ IsUnknownAdapterType(last.raised)

\* the constructor of the most recent registration of a name, "" if none
RECURSIVE MostRecent(_, _)
MostRecent(registered, name) ==
    IF registered = <<>> THEN ""
    ELSE IF registered[Len(registered)][1] = name THEN registered[Len(registered)][2]
    ELSE MostRecent(SubSeq(registered, 1, Len(registered) - 1), name)

\* C26: after any sequence of register_adapter calls the registry holds, for
\* every name, the constructor of the most recent registration of that name;
\* create_adapter for a registered name invokes that constructor, with the
\* adapter configuration it was given; and a registration changes the entry
\* of no other name.
C26_LastRegistrationWins ==
    /\ \A name \in FactoryNames \cup {"unknown"} :
           DictGetOr(factory.adapters, name, "") = MostRecent(factory.registered, name)
    /\ (last.op = "create_adapter"
        /\ DictHas(last.pre_factory.adapters, AdapterType(last.args.config)))
           => /\ Len(factory.invoked) = Len(last.pre_factory.invoked) + 1
              /\ factory.invoked[Len(factory.invoked)]
                     = <<MostRecent(factory.registered, AdapterType(last.args.config)),
                         DictGetOr(last.args.config, "config", EmptyDict)>>
              /\ LET made == Construct(MostRecent(factory.registered,
                                                   AdapterType(last.args.config)),
                                        DictGetOr(last.args.config, "config", EmptyDict))
                 IN /\ last.result = made.adapter
                    /\ (last.raised = <<>>) <=> (made.raised = <<>>)
    /\ last.op = "register_adapter"
           => /\ DictGet(factory.adapters, last.args.name) = last.args.constructor
              /\ \A name \in (FactoryNames \cup {"unknown"}) \ {last.args.name} :
                     DictGetOr(factory.adapters, name, "")
                         = DictGetOr(last.pre_factory.adapters, name, "")
              /\ factory.invoked = last.pre_factory.invoked

\* C26 happens: a name registered twice, with different constructors, has
\* been created
C26_Witness ==
    /\ last.op = "create_adapter"
    /\ last.raised = <<>>
    /\ \E i, j \in 1..Len(factory.registered) :
           /\ i < j
           /\ factory.registered[i][1] = AdapterType(last.args.config)
           /\ factory.registered[j][1] = AdapterType(last.args.config)
           /\ factory.registered[i][2] # factory.registered[j][2]

DefaultSlots == {"claude_1", "claude_2", "claude_3", "claude_4"}

\* C27: after a sign_on on an absent registry the persisted registry holds
\* exactly the four slots claude_1..claude_4, the claimed one "taken" and the
\* other three "available".
C27_DefaultUniverse ==
    (/\ last.op = "sign_on"
     /\ last.raised = <<>>
     /\ last.result.session_id \in DefaultSlots
     /\ RegistryAbsent(last.pre_files, last.proc))
        => /\ KeySet(Registry(files, last.proc)) = DefaultSlots
           /\ Recorded(Registry(files, last.proc), last.result.session_id) = "taken"
           /\ \A slot \in DefaultSlots \ {last.result.session_id} :
                  Recorded(Registry(files, last.proc), slot) = "available"

\* the positions, in iteration order, of the slots a registry records "available"
AvailableAt(registry) ==
    {i \in 1..Len(registry.v) : IsStatus(registry.v[i][2], "available")}

C28_WitnessFallback ==
    /\ last.op = "sign_on"
    /\ last.args.session_id = ""
    /\ AvailableAt(Registry(last.pre_files, last.proc)) = {}
    /\ Recorded(Registry(last.pre_files, last.proc), "claude_1") = "taken"
    /\ last.result.session_id = "claude_1"

\* C29: once the scope machine:project:instances holds the key "registry" it
\* holds it in every later state, whatever sign_on, sign_off, store_data,
\* delete_data and delete_scope calls the sessions make.
C29_RegistryNeverDeleted ==
    \A p \in Procs : ~RegistryAbsent(last.pre_files, p) => ~RegistryAbsent(files, p)

\* the adapter's read of the registry as the sign_on recorded in last made it
RegistryRead ==
    retrieve_io(last.pre_files, InstancesScope(machine_id[last.proc], project_id[last.proc]),
                "registry", last.args.fault)

\* C30: a sign_on whose read of the registry fails, or whose write of it
\* fails, raises the adapter's error to the caller and leaves the session
\* state of every process as it was: an Unsigned caller stays Unsigned.
C30_FailedSignOn ==
    last.op = "sign_on"
        => /\ RegistryRead.raised # <<>>
                => /\ last.raised = RegistryRead.raised
                   /\ current_session = last.pre_sessions
           /\ (RegistryRead.raised = <<>> /\ last.args.fault \in {"open", "write"})
                => /\ last.raised = <<PyRaise("StorageError: Failed to write scope file")>>
                   /\ current_session = last.pre_sessions

\* an Unsigned process whose sign_on failed to persist the registry
C30_Witness ==
    /\ last.op = "sign_on" /\ last.args.fault \in {"open", "write"}
    /\ last.raised = <<PyRaise("StorageError: Failed to write scope file")>>
    /\ last.pre_sessions[last.proc] = <<>>
    /\ current_session[last.proc] = <<>>

\* an Unsigned process whose sign_on failed to read the registry
C30_WitnessRead ==
    /\ last.op = "sign_on" /\ RegistryRead.raised # <<>>
    /\ last.raised = RegistryRead.raised
    /\ last.pre_sessions[last.proc] = <<>>
    /\ current_session[last.proc] = <<>>

\* C31: after any sign_off by a Signed-on process, whether the adapter calls
\* it makes succeed or fail, the process is Unsigned and holds no context.
C31_SignOffUnconditional ==
    (last.op = "sign_off" /\ last.pre_sessions[last.proc] # <<>>)
        => current_session[last.proc] = <<>>

\* processes p and q have each returned from a successful store, of
\* different keys into the same scope, and neither has begun another call
BothStored(p, q) ==
    /\ p # q
    /\ \A r \in {p, q} : /\ inflight[r].pc = "returned"
                         /\ inflight[r].op = "store"
                         /\ inflight[r].raised = <<>>
    /\ inflight[p].scope = inflight[q].scope
    /\ inflight[p].args.key # inflight[q].args.key

\* the keys of the record a store loaded
LoadedKeys(rec) ==
    LET data == DictGetOr(rec.loaded, "data", EmptyDict)
    IN {data.v[i][1] : i \in 1..Len(data.v)}

\* C32: store reads the whole record, changes it in memory and writes the
\* whole record back, so when two processes have stored different keys into
\* one scope and both stores have returned, the record is the last writer's:
\* its key is there, and the other's key is there only if the last writer had
\* loaded it.  Some interleaving leaves only one of the two keys.
C32_LastWriterWins ==
    \A p, q \in Procs :
        (BothStored(p, q) /\ last.proc = p)
            => LET keys == StoredKeys(files, inflight[p].scope)
               IN /\ inflight[p].args.key \in keys
                  /\ keys = LoadedKeys(inflight[p]) \cup {inflight[p].args.key}
                  /\ inflight[q].args.key \in keys
                         <=> inflight[q].args.key \in LoadedKeys(inflight[p])

\* both stores have returned and the first writer's key is lost
C32_Witness ==
    \E p, q \in Procs :
        /\ BothStored(p, q) /\ last.proc = p
        /\ inflight[q].args.key \notin StoredKeys(files, inflight[p].scope)
        /\ inflight[p].args.key \in StoredKeys(files, inflight[p].scope)

\* processes p and q have each returned from a successful sign_on, with
\* different requested ids, and neither has begun another call
BothClaimed(p, q) ==
    /\ p # q
    /\ \A r \in {p, q} : /\ inflight[r].pc = "returned"
                         /\ inflight[r].op = "sign_on"
                         /\ inflight[r].raised = <<>>
                         /\ inflight[r].args.session_id # ""
    /\ inflight[p].args.session_id # inflight[q].args.session_id

\* C33 as stated: after two sign_on calls with distinct requested ids have
\* both returned, under any interleaving of their registry reads and writes,
\* the persisted registry records both ids "taken".
C33_BothRecorded ==
    \A p, q \in Procs :
        BothClaimed(p, q)
            => /\ Recorded(Registry(files, p), inflight[p].args.session_id) = "taken"
               /\ Recorded(Registry(files, p), inflight[q].args.session_id) = "taken"

\* C33, amended: after both calls have returned the persisted registry is the
\* one of the sign_on that wrote last: it records that call's id "taken", and
\* the other call's id "taken" exactly when the registry the last writer had
\* read, before marking its own slot, already recorded it.
C33_LastClaimRecorded ==
    \A p, q \in Procs :
        (BothClaimed(p, q) /\ last.proc = p)
            => /\ Registry(files, p) = inflight[p].instances
               /\ Recorded(Registry(files, p), inflight[p].args.session_id) = "taken"
               /\ Recorded(Registry(files, p), inflight[q].args.session_id) = "taken"
                      <=> Recorded(inflight[p].instances, inflight[q].args.session_id) = "taken"

\* both sign_on calls have returned and the registry records one id only
C33_Witness ==
    \E p, q \in Procs :
        /\ BothClaimed(p, q) /\ last.proc = p
        /\ Recorded(Registry(files, p), inflight[p].args.session_id) = "taken"
        /\ Recorded(Registry(files, p), inflight[q].args.session_id) = ""
        /\ \A r \in {p, q} : current_session[r] # <<>>

\* both sign_on calls have returned and the registry records both ids
C33_WitnessBoth ==
    \E p, q \in Procs :
        /\ BothClaimed(p, q)
        /\ Recorded(Registry(files, p), inflight[p].args.session_id) = "taken"
        /\ Recorded(Registry(files, p), inflight[q].args.session_id) = "taken"

\* the slot process p holds: the session_id of its context
Held(p) == current_session[p][1].session_id

\* C34: in every reachable state, for every Signed-on process the session_id
\* of its context is recorded "taken" in the persisted registry of its
\* (machine, project).
C34_HeldSlotsTaken ==
    \A p \in Procs : SignedOn(p) => Recorded(Registry(files, p), Held(p)) = "taken"

\* the slots the registry records "taken"
TakenSlots(registry) ==
    {registry.v[i][1] : i \in {j \in 1..Len(registry.v) : registry.v[j][2] = PyStr("taken")}}

\* C35: in every reachable state every slot recorded "taken" in the registry
\* is the session_id of the context of some Signed-on process; a process that
\* calls sign_on while Signed-on does not leave its previous slot "taken".
C35_NoLeakedSlots ==
    \A p \in Procs :
        \A slot \in TakenSlots(Registry(files, p)) :
            \E q \in Procs : SignedOn(q) /\ Held(q) = slot

AllSignedOff == \A p \in Procs : ~SignedOn(p)

AllAvailable == \A p \in Procs : TakenSlots(Registry(files, p)) = {}

\* C36: under fair scheduling, if every process that signs on signs off and
\* from some point on no process signs on again, that is, if from some point
\* on every process stays Unsigned, then eventually every slot of the registry
\* is recorded "available" and stays so.
C36_ReleaseEffective == <>[]AllSignedOff => <>[]AllAvailable

\* C37: session://context reports first_available = null, and the startup
\* prompt reports that all instances are taken, only when every slot of
\* claude_1..claude_4 is recorded "taken"; with fewer than four slots
\* recorded taken they report an available slot.
C37_NullOnlyWhenAllTaken ==
    (last.op \in {"get_session_context", "startup"} /\ last.raised = <<>>)
        => LET taken == TakenSlots(Registry(files, last.proc))
           IN /\ last.result.first_available.t = "none" => DefaultSlots \subseteq taken
              /\ Cardinality(taken) < 4 => last.result.first_available.t = "str"
              /\ last.op = "startup"
                     => (last.result.all_taken <=> last.result.first_available.t = "none")

\* the operations that only read: of the adapter, of the server's tools, and
\* the two resources
ReadOps ==
    {"retrieve", "list_keys", "list_scopes", "retrieve_data", "get_session_context",
     "get_session_state"}

\* C38: retrieve, list_keys and list_scopes of the adapter, the server tools
\* retrieve_data, list_keys and list_scopes, and the resources
\* session://context and session://state leave the persisted store and every
\* session context as they were, also when the scope or key does not exist.
C38_ReadsChangeNothing ==
    last.op \in ReadOps => /\ files = last.pre_files
                           /\ current_session = last.pre_sessions

\* session://context read while no registry is persisted: it shows the
\* default registry and persists nothing
C38_Witness ==
    /\ last.op = "get_session_context" /\ last.raised = <<>>
    /\ last.result.instances = DefaultInstances
    /\ RegistryAbsent(files, last.proc)
    /\ files = last.pre_files

\* a key read through the tool from a scope that does not exist
C38_WitnessMissing ==
    /\ last.op = "retrieve_data" /\ last.raised = <<>>
    /\ last.result.t = "none"
    /\ get_scope_path(FullScope(current_session[last.proc], last.args.scope))
           \notin DOMAIN files

\* C39: the project identifier detected from the remote URL
\* git@host:owner/repo.git, https://host/owner/repo.git or
\* http://host/owner/repo.git is exactly owner "/" repo, for every owner and
\* repository name, also one that holds the substring ".git".
C39_ProjectIdIsOwnerRepo ==
    \A owner \in OwnerNames, repo \in RepoNames :
        (/\ last.op = "detect_project_id"
         /\ last.args.method = "git" /\ last.args.run.ok
         /\ Strip(last.args.run.stdout) \in UrlsOf(owner, repo, DotGit))
            => /\ last.raised = <<>>
               /\ last.result = owner \o <<"/">> \o repo

====
